---- MODULE Spec2Model ----
(***************************************************************************)
(* Appointment tools of the voice agent (src/src/tools/appointment_tools.py)*)
(* over the appointment store (src/src/services/supabase_service.py).       *)
(*                                                                         *)
(* Every session is one AppointmentTools instance with its own             *)
(* ConversationState; sessions share nothing but the remote store.  A tool *)
(* call runs from the dispatch in execute_tool up to and including its     *)
(* first store request in one step, and every later store request of the   *)
(* call is one step of its own, so the store requests of calls running in  *)
(* different sessions interleave.  A session handles one tool call at a    *)
(* time.                                                                   *)
(***************************************************************************)
EXTENDS Integers, Sequences, FiniteSets, TLC

\* ------------------------------------------------------------------ bounds
\* Tool calls, over all sessions, that get past their checks and act on the
\* session state or the store.
MaxCalls == 4

\* -------------------------------------------------- configuration (Settings)
business_hours_start == 8
business_hours_end == 20
business_days == {0, 1, 2, 3, 4, 5}
booking_advance_days == 30

\* ------------------------------------------------------------------ values
Sessions == {"s1", "s2"}

\* Python's None for an optional string.
None == "None"

\* Texts are modelled by what strptime reads in them.  A date text is the
\* ordinal of its day (day 0 is a Monday), or malformed.
DateText(d) == [kind |-> "date", day |-> d]
BadDate == [kind |-> "malformed", text |-> "date"]
\* A time text "HH:MM", or malformed.
TimeText(h, m) == [kind |-> "time", hour |-> h, minute |-> m]
BadTime == [kind |-> "malformed", text |-> "time"]

\* datetime.now(tz): the clock the tools read (Monday, 15:00).
ClockValues == {[day |-> 0, hour |-> 15, minute |-> 0]}

\* date.weekday(): 0 is Monday.
weekday(day) == day % 7

Digits == {"0", "1", "2", "3", "4", "5", "6", "7", "8", "9"}
IsDigit(c) == c \in Digits

\* _normalize_phone leaves out the country code.
normalize_phone_bare(phone) == SelectSeq(phone, IsDigit)

\* A _normalize_phone that puts the US country code before any number of
\* ten digits or more.
normalize_phone_always_prefixed(phone) ==
    LET digits == SelectSeq(phone, IsDigit)
    IN  IF Len(digits) >= 10 THEN <<"+", "1">> \o digits ELSE digits

\* AppointmentTools._normalize_phone: strip the non-digits, then prefix.
normalize_phone(phone) ==
    LET digits == SelectSeq(phone, IsDigit)
    IN  IF Len(digits) = 10 THEN <<"+", "1">> \o digits
        ELSE IF Len(digits) = 11 /\ digits[1] = "1" THEN <<"+">> \o digits
        ELSE IF Len(digits) > 10 THEN <<"+">> \o digits
        ELSE digits

\* Phone numbers as callers say them: 555-123-4567 and 555-987-6543.
PhoneInputs ==
    { <<"5", "5", "5", "-", "1", "2", "3", "-", "4", "5", "6", "7">>,
      <<"5", "5", "5", "9", "8", "7", "6", "5", "4", "3">> }
PhoneKeys == {normalize_phone(p) : p \in PhoneInputs}
NoPhone == <<>>
\* The time of what was written before the conversations.
Earlier == [day |-> -1, hour |-> 15, minute |-> 0]

NameInputs == {"Ann"}

\* A validate_slot without its test of the business hours.
validate_slot_any_hour(date, time, now) ==
    IF date.kind # "date"
    THEN <<FALSE, "Invalid date format. Please use YYYY-MM-DD.">>
    ELSE IF time.kind # "time"
    THEN <<FALSE, "Invalid time format. Please use HH:MM.">>
    ELSE IF weekday(date.day) \notin business_days
    THEN <<FALSE, "That date is not a business day.">>
    ELSE IF \/ date.day < now.day
            \/ /\ date.day = now.day
               /\ time.hour * 60 + time.minute <= now.hour * 60 + now.minute
    THEN <<FALSE, "That time is in the past. Please choose a future time.">>
    ELSE IF date.day > now.day + booking_advance_days
    THEN <<FALSE, "That's too far in advance.">>
    ELSE <<TRUE, "">>

\* SlotGenerator.validate_slot: (is_valid, error_message).
validate_slot(date, time, now) ==
    IF date.kind # "date"
    THEN <<FALSE, "Invalid date format. Please use YYYY-MM-DD.">>
    ELSE IF time.kind # "time"
    THEN <<FALSE, "Invalid time format. Please use HH:MM.">>
    ELSE IF time.hour < business_hours_start \/ time.hour >= business_hours_end
    THEN <<FALSE, "That time is outside business hours.">>
    ELSE IF weekday(date.day) \notin business_days
    THEN <<FALSE, "That date is not a business day.">>
    ELSE IF \/ date.day < now.day
            \/ /\ date.day = now.day
               /\ time.hour * 60 + time.minute <= now.hour * 60 + now.minute
    THEN <<FALSE, "That time is in the past. Please choose a future time.">>
    ELSE IF date.day > now.day + booking_advance_days
    THEN <<FALSE, "That's too far in advance.">>
    ELSE <<TRUE, "">>

\* ------------------------------------------------------------------- state
VARIABLES
    appointments,   \* the appointments table: row i has id i
    users,          \* the users table, keyed by phone_number
    state,          \* AppointmentTools.state of each session
    running,        \* the tool each session is executing
    pc,             \* where each session's tool call stands
    frame,          \* the locals of each session's tool call
    result,         \* what execute_tool is returning to its caller
    calls,          \* tool calls that got past their checks
    now,            \* the clock
    session_id,     \* VoiceAgent.session_id
    is_active,      \* VoiceAgent.is_active
    tool_call_logs, \* VoiceAgent.tool_call_logs
    tool_calls,     \* handle_tool_call invocations and log_tool_call
                    \* requests made so far
    hpc,            \* where the agent's handle_tool_call stands
    handled,        \* what handle_tool_call has returned, and the outcomes
                    \* of its audit write and of its display callback
    turns,          \* agent turns completed; whether the session has closed
    td,             \* where each task's VoiceAgent.end_conversation stands,
                    \* its summary, and what it has returned
    event_rows,     \* log_event: requests made, whether one has failed
    summaries,      \* the conversation_summaries table
    llm,            \* LLMService.generate_response: where each request
                    \* stands, the provider calls it has made, its answer
    last_provider,  \* LLMService._last_provider
    current_state,  \* AvatarStateManager.current_state
    transition_lock,\* AvatarStateManager._transition_lock, the number
                    \* of transition_to calls made so far and the
                    \* caller of the one that started last
    transitions,    \* where each transition_to call stands
    avatar_state,   \* the state the avatar service has accepted last
    generator,      \* a call of the SlotGenerator: its arguments, the
                    \* method called and what it has returned
    http,           \* the requests to the admin routes of the HTTP API
    normalized      \* a call of _normalize_phone: the number as written,
                    \* and the keys the call and a second call on its
                    \* answer have returned

vars == <<appointments, users, state, running, pc, frame, result, calls, now>>

\* The voice agent of one call.
agent ==
    <<session_id, is_active, tool_call_logs, tool_calls, hpc, handled,
      turns, td, event_rows, summaries>>

\* No row for this phone in the users table.
NoUser == [phone_number |-> NoPhone]
\* AppointmentTools.state before init_conversation.
NoState == [session_id |-> None]
NoFrame == <<>>
NoResult == [kind |-> "none", session |-> None]

\* ToolResult(success, data, verbal_response, error).
ToolResult(success, data, verbal, error) ==
    [kind |-> "ToolResult", success |-> success, data |-> data,
     verbal_response |-> verbal, error |-> error]
\* An exception that leaves execute_tool.
Raised(exc) == [kind |-> "raised", exc |-> exc]
NoData == <<>>
\* A text of a result; some carry the date and time they mention.
Text(t) == [text |-> t]
NoError == Text(None)

\* ConversationState(session_id).
ConversationState(s) ==
    [session_id |-> s, user_phone |-> NoPhone, user_name |-> None,
     user |-> NoUser, is_identified |-> FALSE,
     appointments_booked |-> <<>>, appointments_modified |-> <<>>,
     appointments_cancelled |-> <<>>, should_end |-> FALSE]

\* The LLM service and the avatar of the call.
services ==
    <<llm, last_provider, current_state, transition_lock, transitions,
      avatar_state>>

\* The components that keep no state between calls: the slot generator and
\* the HTTP API.
stateless == <<generator, http, normalized>>

\* The tasks that end the conversation: the agent-turn callback and the
\* session-close callback.
Tasks == {"turn", "close"}

NoSummary == [kind |-> "none"]
NotHandled == [result |-> NoResult, write |-> "none", callback |-> "none"]
NoTeardown == [pc |-> "idle", summary |-> NoSummary, returned |-> NoSummary]

\* The requests made of LLMService.generate_response.
Requests == {"r1", "r2", "r3"}
NoResponse == [kind |-> "none"]
NoRequest == [pc |-> "idle", calls |-> <<>>, response |-> NoResponse]

\* LLMService.__init__: no provider has answered yet.
LLMServiceInit ==
    /\ llm = [r \in Requests |-> NoRequest]
    /\ last_provider = None

\* The tasks that call AvatarStateManager.transition_to.
Callers == {"a1", "a2", "a3"}
NoTransition == [pc |-> "idle", new_state |-> None, success |-> FALSE]

\* AvatarStateManager.__init__: the label is idle, the lock is free, and
\* the avatar service has accepted nothing yet.
AvatarStateManagerInit ==
    /\ current_state = "idle"
    /\ transition_lock = [holder |-> None, waiters |-> <<>>, calls |-> 0,
                          last |-> None]
    /\ transitions = [c \in Callers |-> NoTransition]
    /\ avatar_state = None

\* VoiceAgent.__init__: no session yet, nothing logged.
VoiceAgentInit ==
    /\ session_id = None
    /\ is_active = FALSE
    /\ tool_call_logs = <<>>
    /\ tool_calls = [invocations |-> 0, writes |-> 0]
    /\ hpc = "idle"
    /\ handled = NotHandled
    /\ turns = [count |-> 0, closed |-> FALSE]
    /\ td = [t \in Tasks |-> NoTeardown]
    /\ event_rows = [requests |-> 0, failed |-> FALSE]
    /\ summaries = <<>>

\* No method of the slot generator has been called.
NoSlotCall == [called |-> None]

\* The requests the HTTP API is serving: none has arrived.
HttpRequests == {"q1", "q2"}
NoHttpRequest == [pc |-> "idle"]
ApiInit == http = [q \in HttpRequests |-> NoHttpRequest]

\* No _normalize_phone call is followed on its own.
NoPhoneCall == [pc |-> "none"]

\* The store when the sessions start: a first caller has booked Tuesday
\* 09:00 in an earlier conversation; the other caller is not known yet.
FirstCaller ==
    normalize_phone(<<"5", "5", "5", "-", "1", "2", "3", "-", "4", "5", "6", "7">>)

StoreInit ==
    /\ appointments =
          << [user_phone |-> FirstCaller, user_name |-> "Ann",
              date |-> DateText(1), time |-> TimeText(9, 0),
              status |-> "scheduled"] >>
    /\ users = [p \in PhoneKeys |->
                  IF p = FirstCaller
                  THEN [phone_number |-> p, name |-> "Ann",
                        last_interaction |-> Earlier, total_appointments |-> 1]
                  ELSE NoUser]
    /\ state = [s \in Sessions |-> NoState]
    /\ running = [s \in Sessions |-> None]
    /\ pc = [s \in Sessions |-> "idle"]
    /\ frame = [s \in Sessions |-> NoFrame]
    /\ result = NoResult
    /\ calls = 0

\* The state after construction: nothing has been asked of the slot
\* generator or of the HTTP API yet.
Init ==
    /\ StoreInit
    /\ now \in ClockValues
    /\ VoiceAgentInit
    /\ LLMServiceInit
    /\ AvatarStateManagerInit
    /\ generator = NoSlotCall
    /\ ApiInit
    /\ normalized = NoPhoneCall

\* ------------------------------------------------------------ store reads
\* SupabaseService.get_user_by_phone: None on any error.
get_user_by_phone(phone, fail) ==
    IF fail \/ phone \notin DOMAIN users THEN NoUser ELSE users[phone]

\* SupabaseService.get_appointment_by_id: None on any error.
NoAppointment == [id |-> 0]
Row(i) == [id |-> i] @@ appointments[i]
get_appointment_by_id(id, fail) ==
    IF fail \/ id \notin DOMAIN appointments THEN NoAppointment ELSE Row(id)

\* SupabaseService.get_appointments_by_phone(phone, status): the ids of the
\* rows, [] on any error.
get_appointments_by_phone(phone, status, fail) ==
    IF fail THEN {}
    ELSE {i \in DOMAIN appointments :
            /\ appointments[i].user_phone = phone
            /\ status \in {None, appointments[i].status}}

\* A check_slot_available that answers without looking at the table.
check_slot_available_unread(date, time, fail) == ~fail

\* A check_slot_available that takes a failed read for a free slot.
check_slot_available_optimistic(date, time, fail) ==
    fail \/ ~\E i \in DOMAIN appointments :
                /\ appointments[i].date = date
                /\ appointments[i].time = time
                /\ appointments[i].status = "scheduled"

\* SupabaseService.check_slot_available: False on any error.
check_slot_available(date, time, fail) ==
    IF fail THEN FALSE
    ELSE ~\E i \in DOMAIN appointments :
            /\ appointments[i].date = date
            /\ appointments[i].time = time
            /\ appointments[i].status = "scheduled"

\* ------------------------------------------------------- a call's ending
\* execute_tool of session s returns r to its caller.
Return(s, r) ==
    /\ pc' = [pc EXCEPT ![s] = "returned"]
    /\ frame' = [frame EXCEPT ![s] = NoFrame]
    /\ result' = [session |-> s] @@ r

\* The call of session s goes on to its next store request.
Goto(s, label, locals) ==
    /\ pc' = [pc EXCEPT ![s] = label]
    /\ frame' = [frame EXCEPT ![s] = locals]
    /\ UNCHANGED result

\* A tool call gets past its checks.
Proceed == calls < MaxCalls /\ calls' = calls + 1

\* The call of session s ends with a failure result and has changed nothing.
Refuse(s, verbal, error) ==
    /\ Return(s, ToolResult(FALSE, NoData, verbal, error))
    /\ UNCHANGED <<appointments, users, state, calls, now>>

\* The caller of execute_tool takes the result; the session is ready for
\* its next tool call.  No other session observes this step, so it is taken
\* at once: every other action waits for result = NoResult.
TakeResult(s) ==
    /\ pc[s] = "returned"
    /\ UNCHANGED <<agent, services, stateless>>
    /\ pc' = [pc EXCEPT ![s] = "idle"]
    /\ running' = [running EXCEPT ![s] = None]
    /\ result' = NoResult
    /\ UNCHANGED <<appointments, users, state, frame, calls, now>>

\* AppointmentTools.init_conversation.
InitConversation(s) ==
    /\ result = NoResult
    /\ UNCHANGED running
    /\ pc[s] = "idle"
    /\ state[s] = NoState
    /\ UNCHANGED <<agent, services, stateless>>
    /\ state' = [state EXCEPT ![s] = ConversationState(s)]
    /\ UNCHANGED <<appointments, users, pc, frame, result, calls, now>>

\* ------------------------------------------------------------ tool inputs
ToolNames ==
    {"identify_user", "fetch_slots", "book_appointment",
     "retrieve_appointments", "cancel_appointment", "modify_appointment",
     "end_conversation"}

\* The keyword parameters of each tool function, and those without default.
Params(tool) ==
    CASE tool = "identify_user" -> {"phone_number"}
      [] tool = "fetch_slots" -> {"date", "duration_minutes"}
      [] tool = "book_appointment" ->
            {"date", "time", "purpose", "duration_minutes", "user_name"}
      [] tool = "retrieve_appointments" -> {"include_past", "status"}
      [] tool = "cancel_appointment" -> {"appointment_id", "date", "time"}
      [] tool = "modify_appointment" ->
            {"appointment_id", "current_date", "current_time", "new_date",
             "new_time"}
      [] tool = "end_conversation" -> {"reason"}

Required(tool) ==
    CASE tool = "identify_user" -> {"phone_number"}
      [] tool = "book_appointment" -> {"date", "time"}
      [] OTHER -> {}

\* tool_func(**tool_input) binds: no unexpected keyword, none missing.
Binds(tool, tool_input) ==
    /\ DOMAIN tool_input \subseteq Params(tool)
    /\ Required(tool) \subseteq DOMAIN tool_input

\* An optional parameter was passed (with a truthy value).
Has(tool_input, key) == key \in DOMAIN tool_input

\* new_x or apt.x
OrElse(tool_input, key, otherwise) ==
    IF Has(tool_input, key) THEN tool_input[key] ELSE otherwise

\* ------------------------------------------------------------ identify_user
\* An identify_user that records the user and the flag, not the phone.
Identified_without_phone(st, user, phone, name) ==
    [st EXCEPT !.user = user, !.user_name = name, !.is_identified = TRUE]

\* identify_user records the user in the session state.
Identified(st, user, phone, name) ==
    [st EXCEPT !.user = user, !.user_phone = phone, !.user_name = name,
               !.is_identified = TRUE]

\* AppointmentTools.identify_user up to the answer of get_user_by_phone.
identify_user(s, tool_input) ==
    IF state[s] = NoState
    THEN Refuse(s, Text("I'm sorry, there was a technical issue. Try again."),
                Text("Conversation not initialized"))
    ELSE /\ Proceed
         /\ \E fail \in BOOLEAN :
            LET normalized_phone == normalize_phone(tool_input.phone_number)
                user == get_user_by_phone(normalized_phone, fail)
            IN  IF user # NoUser
                THEN /\ state' = [state EXCEPT ![s] =
                            Identified(@, user, normalized_phone, user.name)]
                     /\ Return(s, ToolResult(TRUE,
                            [user |-> user, is_returning |-> TRUE],
                            Text("Welcome back"), NoError))
                ELSE /\ Goto(s, "create_or_update_user_get",
                            [phone |-> normalized_phone, name |-> None])
                     /\ UNCHANGED state
         /\ UNCHANGED <<appointments, users, now>>

\* SupabaseService.create_or_update_user, its get_user_by_phone.
CreateOrUpdateUserGet(s) ==
    /\ result = NoResult
    /\ UNCHANGED running
    /\ pc[s] = "create_or_update_user_get"
    /\ UNCHANGED <<agent, services, stateless>>
    /\ \E fail \in BOOLEAN :
         Goto(s, "create_or_update_user_write",
              [existing |-> get_user_by_phone(frame[s].phone, fail)]
                 @@ frame[s])
    /\ UNCHANGED <<appointments, users, state, calls, now>>

\* datetime.utcnow() of a store write: the clock, which stands still while
\* the conversations run; the rows written before them carry Earlier.
utcnow == now

\* The users table after create_or_update_user's write: an update of
\* last_interaction and of the name (when one is given), or the insert of a
\* new row.
UpsertedUsers(phone, name, existing) ==
    IF existing # NoUser
    THEN [users EXCEPT ![phone].last_interaction = utcnow,
                       ![phone].name = IF name # None THEN name ELSE @]
    ELSE [users EXCEPT ![phone] =
            [phone_number |-> phone, name |-> name,
             last_interaction |-> utcnow, total_appointments |-> 0]]

\* The User object create_or_update_user returns.
UpsertedUser(phone, name, existing) ==
    IF existing # NoUser
    THEN [existing EXCEPT !.last_interaction = utcnow,
                          !.name = IF name # None THEN name ELSE @]
    ELSE [phone_number |-> phone, name |-> name,
          last_interaction |-> utcnow, total_appointments |-> 0]

\* The write raises: the request fails, or the insert meets the row another
\* session has inserted meanwhile (phone_number is the key of the table).
UpsertRaises(phone, existing, fail) ==
    fail \/ (existing = NoUser /\ users[phone] # NoUser)

\* create_or_update_user's write, and what its caller does with the answer:
\* identify_user records the user; book_appointment goes on to create the
\* appointment.  Either tool turns an exception into a failure result.
CreateOrUpdateUserWrite(s) ==
    /\ result = NoResult
    /\ UNCHANGED running
    /\ pc[s] = "create_or_update_user_write"
    /\ UNCHANGED <<agent, services, stateless>>
    /\ \E fail \in BOOLEAN :
         LET f == frame[s]
             raises == UpsertRaises(f.phone, f.existing, fail)
             user == UpsertedUser(f.phone, f.name, f.existing)
         IN  /\ users' = IF raises THEN users
                         ELSE UpsertedUsers(f.phone, f.name, f.existing)
             /\ IF running[s] = "identify_user"
                THEN IF raises
                     THEN /\ Return(s, ToolResult(FALSE, NoData,
                                Text("I had trouble processing that phone number."),
                                Text("create_or_update_user failed")))
                          /\ UNCHANGED state
                     ELSE /\ state' = [state EXCEPT ![s] =
                                Identified(@, user, f.phone, @.user_name)]
                          /\ Return(s, ToolResult(TRUE,
                                [user |-> user, is_returning |-> FALSE],
                                Text("Great, I've got your number."), NoError))
                ELSE IF raises
                     THEN /\ Return(s, ToolResult(FALSE, NoData,
                                Text("I had trouble booking that appointment."),
                                Text("create_or_update_user failed")))
                          /\ UNCHANGED state
                     ELSE /\ Goto(s, "create_appointment_check", f)
                          /\ UNCHANGED state
    /\ UNCHANGED <<appointments, calls, now>>

\* --------------------------------------------------------- book_appointment
\* AppointmentTools.book_appointment up to the answer of its own
\* check_slot_available.
book_appointment(s, tool_input) ==
    IF state[s] = NoState
    THEN Refuse(s, Text("I'm sorry, there was a technical issue."),
                Text("Conversation not initialized"))
    ELSE IF ~state[s].is_identified
    THEN Refuse(s, Text("Before I can book an appointment, I'll need your phone."),
                Text("User not identified"))
    ELSE LET date == tool_input.date
             time == tool_input.time
             valid == validate_slot(date, time, now)
         IN  IF ~valid[1]
             THEN Refuse(s, Text(valid[2]), Text(valid[2]))
             ELSE \E fail \in BOOLEAN :
                  IF ~check_slot_available(date, time, fail)
                  THEN Refuse(s, Text("I'm sorry, that slot was just taken."),
                              Text("Slot already booked"))
                  ELSE /\ Proceed
                       /\ LET locals ==
                                [date |-> date, time |-> time, phone |-> state[s].user_phone,
                                 name |-> OrElse(tool_input, "user_name", None)]
                          IN  IF locals.name # None /\ state[s].user_name = None
                              THEN /\ state' = [state EXCEPT
                                        ![s].user_name = locals.name]
                                   /\ Goto(s, "create_or_update_user_get", locals)
                              ELSE /\ Goto(s, "create_appointment_check", locals)
                                   /\ UNCHANGED state
                       /\ UNCHANGED <<appointments, users, now>>

\* A create_appointment that inserts without its own check.
CreateAppointmentCheck_skipped(s) ==
    /\ result = NoResult
    /\ UNCHANGED running
    /\ pc[s] = "create_appointment_check"
    /\ Goto(s, "create_appointment_insert", frame[s])
    /\ UNCHANGED <<agent, services, stateless>>
    /\ UNCHANGED <<appointments, users, state, calls, now>>

\* SupabaseService.create_appointment, its check_slot_available: a taken slot
\* raises ValueError, which book_appointment turns into a failure result.
CreateAppointmentCheck(s) ==
    /\ result = NoResult
    /\ UNCHANGED running
    /\ pc[s] = "create_appointment_check"
    /\ UNCHANGED <<agent, services, stateless>>
    /\ \E fail \in BOOLEAN :
         IF ~check_slot_available(frame[s].date, frame[s].time, fail)
         THEN LET e == [text |-> "Slot is already booked",
                        date |-> frame[s].date, time |-> frame[s].time]
              IN  Return(s, ToolResult(FALSE, NoData, e, e))
         ELSE Goto(s, "create_appointment_insert", frame[s])
    /\ UNCHANGED <<appointments, users, state, calls, now>>

\* book_appointment after create_appointment has returned: the booking is
\* tracked in the session state and confirmed.
Booked(s, id) ==
    /\ state' = [state EXCEPT ![s].appointments_booked =
            Append(@, [id |-> id, date |-> frame[s].date,
                       time |-> frame[s].time])]
    /\ Return(s, ToolResult(TRUE, [appointment |-> id],
            [text |-> "I've booked your appointment", date |-> frame[s].date,
             time |-> frame[s].time], NoError))

\* The row create_appointment inserts for the Appointment book_appointment
\* has built.
NewAppointment(s) ==
    [user_phone |-> frame[s].phone,
     user_name |-> IF state[s].user_name # None THEN state[s].user_name
                   ELSE frame[s].name,
     date |-> frame[s].date, time |-> frame[s].time, status |-> "scheduled"]

\* create_appointment's insert.
CreateAppointmentInsert(s) ==
    /\ result = NoResult
    /\ UNCHANGED running
    /\ pc[s] = "create_appointment_insert"
    /\ UNCHANGED <<agent, services, stateless>>
    /\ \E fail \in BOOLEAN :
         IF fail
         THEN /\ Return(s, ToolResult(FALSE, NoData,
                    Text("I had trouble booking that appointment."),
                    Text("insert failed")))
              /\ UNCHANGED appointments
         ELSE /\ appointments' = Append(appointments, NewAppointment(s))
              /\ Goto(s, "increment_user_appointments_get",
                      [created |-> Len(appointments) + 1] @@ frame[s])
    /\ UNCHANGED <<users, state, calls, now>>

\* SupabaseService._increment_user_appointments, its get_user_by_phone: with
\* no user read there is nothing to write.
IncrementUserAppointmentsGet(s) ==
    /\ result = NoResult
    /\ UNCHANGED running
    /\ pc[s] = "increment_user_appointments_get"
    /\ UNCHANGED <<agent, services, stateless>>
    /\ \E fail \in BOOLEAN :
         LET user == get_user_by_phone(frame[s].phone, fail)
         IN  IF user = NoUser
             THEN Booked(s, frame[s].created)
             ELSE /\ Goto(s, "increment_user_appointments_write",
                        [total |-> user.total_appointments] @@ frame[s])
                  /\ UNCHANGED state
    /\ UNCHANGED <<appointments, users, calls, now>>

\* _increment_user_appointments' update: total_appointments becomes the
\* value read plus one; an error is logged and swallowed.
IncrementUserAppointmentsWrite(s) ==
    /\ result = NoResult
    /\ UNCHANGED running
    /\ pc[s] = "increment_user_appointments_write"
    /\ UNCHANGED <<agent, services, stateless>>
    /\ \E fail \in BOOLEAN :
         users' = IF fail THEN users
                  ELSE [users EXCEPT ![frame[s].phone].total_appointments =
                            frame[s].total + 1]
    /\ Booked(s, frame[s].created)
    /\ UNCHANGED <<appointments, calls, now>>

\* ------------------------------------------- cancel_appointment and modify
\* A FindAppointment that does not ask whose appointment it finds.
FindAppointment_of_anyone(s, tool_input, id_key, date_key, time_key, fail) ==
    IF Has(tool_input, id_key)
    THEN LET apt == get_appointment_by_id(tool_input[id_key], fail)
         IN  IF apt = NoAppointment THEN {} ELSE {apt}
    ELSE {Row(i) : i \in
            {j \in DOMAIN appointments :
                /\ ~fail
                /\ appointments[j].status = "scheduled"
                /\ appointments[j].date = tool_input[date_key]
                /\ appointments[j].time = tool_input[time_key]}}

\* "Find the appointment" of cancel_appointment and modify_appointment: the
\* rows the tool may bind apt to.  By id it is the row of that id when it
\* belongs to the session's user; by date and time it is the first of the
\* user's scheduled rows on that date and time (the store orders rows of one
\* date and time in no particular order).  No row: "Appointment not found".
FindAppointment(s, tool_input, id_key, date_key, time_key, fail) ==
    IF Has(tool_input, id_key)
    THEN LET apt == get_appointment_by_id(tool_input[id_key], fail)
         IN  IF apt = NoAppointment \/ apt.user_phone # state[s].user_phone
             THEN {}
             ELSE {apt}
    ELSE {Row(i) : i \in
            {j \in get_appointments_by_phone(state[s].user_phone,
                                             "scheduled", fail) :
                /\ appointments[j].date = tool_input[date_key]
                /\ appointments[j].time = tool_input[time_key]}}

\* The call names an appointment: by id, or by both date and time.
Specified(tool_input, id_key, date_key, time_key) ==
    \/ Has(tool_input, id_key)
    \/ Has(tool_input, date_key) /\ Has(tool_input, time_key)

\* An update_appointment that writes the updated row as a new row.
update_appointment_reinserted(id, updates) ==
    Append(appointments, updates @@ appointments[id])

\* An update_appointment whose update does not reach the table.
update_appointment_lost(id, updates) == appointments

\* SupabaseService.update_appointment: the table after the update of row id.
update_appointment(id, updates) ==
    [appointments EXCEPT ![id] = updates @@ @]

\* What the store answers to an update: the updated row, no row (the update
\* has matched none), or an error.
UpdateAnswers == {"row", "no row", "error"}

\* AppointmentTools.cancel_appointment up to the answer of the read that
\* finds the appointment.
cancel_appointment(s, tool_input) ==
    IF state[s] = NoState \/ ~state[s].is_identified
    THEN Refuse(s, Text("I need to verify your phone number before I can cancel."),
                Text("User not identified"))
    ELSE IF ~Specified(tool_input, "appointment_id", "date", "time")
    THEN Refuse(s, Text("Which appointment would you like to cancel?"),
                Text("No appointment specified"))
    ELSE \E fail \in BOOLEAN :
         LET found == FindAppointment(s, tool_input, "appointment_id",
                                      "date", "time", fail)
         IN  IF found = {}
             THEN Refuse(s,
                    IF Has(tool_input, "appointment_id")
                    THEN [text |-> "I couldn't find that appointment."]
                    ELSE [text |-> "I couldn't find an appointment on",
                          date |-> tool_input.date, time |-> tool_input.time],
                    Text("Appointment not found"))
             ELSE /\ Proceed
                  /\ \E apt \in found :
                        Goto(s, "cancel_update",
                             [apt |-> apt])
                  /\ UNCHANGED <<appointments, users, state, now>>

\* The entry cancel_appointment tracks.
CancelledEntry(apt) == [id |-> apt.id, date |-> apt.date, time |-> apt.time]

\* cancel_appointment after the store's cancel_appointment has answered.  The
\* cancellation is tracked before the returned row is read, so an answer
\* without row is tracked and then fails on cancelled.model_dump().
CancelUpdate(s) ==
    /\ result = NoResult
    /\ UNCHANGED running
    /\ pc[s] = "cancel_update"
    /\ UNCHANGED <<agent, services, stateless>>
    /\ \E answer \in UpdateAnswers :
         LET apt == frame[s].apt
             tracked == [state EXCEPT ![s].appointments_cancelled =
                            Append(@, CancelledEntry(apt))]
         IN  CASE answer = "row" ->
                    /\ appointments' =
                          update_appointment(apt.id, [status |-> "cancelled"])
                    /\ state' = tracked
                    /\ Return(s, ToolResult(TRUE, [appointment |-> apt.id],
                          [text |-> "I've cancelled your appointment",
                           date |-> apt.date, time |-> apt.time], NoError))
               [] answer = "no row" ->
                    /\ state' = tracked
                    /\ Return(s, ToolResult(FALSE, NoData,
                          Text("I had trouble cancelling that appointment."),
                          Text("'NoneType' object has no attribute 'model_dump'")))
                    /\ UNCHANGED appointments
               [] answer = "error" ->
                    /\ Return(s, ToolResult(FALSE, NoData,
                          Text("I had trouble cancelling that appointment."),
                          Text("update failed")))
                    /\ UNCHANGED <<appointments, state>>
    /\ UNCHANGED <<users, calls, now>>

\* AppointmentTools.modify_appointment up to the answer of the read that
\* finds the appointment, and the validation of the resulting slot.
modify_appointment(s, tool_input) ==
    IF state[s] = NoState \/ ~state[s].is_identified
    THEN Refuse(s, Text("I need your phone number before I can modify appointments."),
                Text("User not identified"))
    ELSE IF ~Has(tool_input, "new_date") /\ ~Has(tool_input, "new_time")
    THEN Refuse(s, Text("What would you like to change the appointment to?"),
                Text("No changes specified"))
    ELSE IF ~Specified(tool_input, "appointment_id", "current_date",
                       "current_time")
    THEN Refuse(s, Text("Which appointment would you like to modify?"),
                Text("No appointment specified"))
    ELSE \E fail \in BOOLEAN :
         LET found == FindAppointment(s, tool_input, "appointment_id",
                                      "current_date", "current_time", fail)
         IN  IF found = {}
             THEN Refuse(s, Text("I couldn't find that appointment."),
                         Text("Appointment not found"))
             ELSE \E apt \in found :
                  LET target_date == OrElse(tool_input, "new_date", apt.date)
                      target_time == OrElse(tool_input, "new_time", apt.time)
                      valid == validate_slot(target_date, target_time, now)
                  IN  IF ~valid[1]
                      THEN Refuse(s, Text(valid[2]), Text(valid[2]))
                      ELSE /\ Proceed
                           /\ Goto(s, "modify_get",
                                [apt |-> apt, tool_input |-> tool_input,
                                 target_date |-> target_date,
                                 target_time |-> target_time])
                           /\ UNCHANGED <<appointments, users, state, now>>

\* SupabaseService.modify_appointment, its get_appointment_by_id: no row
\* raises ValueError, which modify_appointment turns into a failure result.
ModifyGet(s) ==
    /\ result = NoResult
    /\ UNCHANGED running
    /\ pc[s] = "modify_get"
    /\ UNCHANGED <<agent, services, stateless>>
    /\ \E fail \in BOOLEAN :
         LET current == get_appointment_by_id(frame[s].apt.id, fail)
         IN  IF current = NoAppointment
             THEN LET e == [text |-> "Appointment not found",
                            id |-> frame[s].apt.id]
                  IN  Return(s, ToolResult(FALSE, NoData, e, e))
             ELSE Goto(s, "modify_check", [current |-> current] @@ frame[s])
    /\ UNCHANGED <<appointments, users, state, calls, now>>

\* A SupabaseService.modify_appointment that updates without asking whether
\* the slot is available.
ModifyCheck_skipped(s) ==
    /\ result = NoResult
    /\ UNCHANGED running
    /\ pc[s] = "modify_check"
    /\ UNCHANGED <<agent, services, stateless>>
    /\ Goto(s, "modify_update", frame[s])
    /\ UNCHANGED <<appointments, users, state, calls, now>>

\* SupabaseService.modify_appointment, its check_slot_available on the slot
\* made of the new values and the row just read.
ModifyCheck(s) ==
    /\ result = NoResult
    /\ UNCHANGED running
    /\ pc[s] = "modify_check"
    /\ UNCHANGED <<agent, services, stateless>>
    /\ \E fail \in BOOLEAN :
         LET f == frame[s]
             target_date == OrElse(f.tool_input, "new_date", f.current.date)
             target_time == OrElse(f.tool_input, "new_time", f.current.time)
         IN  IF ~check_slot_available(target_date, target_time, fail)
             THEN LET e == [text |-> "Slot is not available",
                            date |-> target_date, time |-> target_time]
                  IN  Return(s, ToolResult(FALSE, NoData, e, e))
             ELSE Goto(s, "modify_update", f)
    /\ UNCHANGED <<appointments, users, state, calls, now>>

\* The fields SupabaseService.modify_appointment updates.
ModifyUpdates(tool_input) ==
    LET keys == (IF Has(tool_input, "new_date") THEN {"date"} ELSE {}) \cup
                (IF Has(tool_input, "new_time") THEN {"time"} ELSE {})
    IN  [k \in keys |-> IF k = "date" THEN tool_input.new_date
                        ELSE tool_input.new_time]

\* The entry modify_appointment tracks.
ModifiedEntry(f) ==
    [id |-> f.apt.id, old_date |-> f.apt.date, old_time |-> f.apt.time,
     new_date |-> f.target_date, new_time |-> f.target_time]

\* modify_appointment after the store's update has answered.  The change is
\* tracked before the returned row is read, as in cancel_appointment.
ModifyUpdate(s) ==
    /\ result = NoResult
    /\ UNCHANGED running
    /\ pc[s] = "modify_update"
    /\ UNCHANGED <<agent, services, stateless>>
    /\ \E answer \in UpdateAnswers :
         LET f == frame[s]
             tracked == [state EXCEPT ![s].appointments_modified =
                            Append(@, ModifiedEntry(f))]
         IN  CASE answer = "row" ->
                    /\ appointments' =
                          update_appointment(f.apt.id,
                                             ModifyUpdates(f.tool_input))
                    /\ state' = tracked
                    /\ Return(s, ToolResult(TRUE, [appointment |-> f.apt.id],
                          [text |-> "I've updated your appointment",
                           date |-> f.target_date, time |-> f.target_time],
                          NoError))
               [] answer = "no row" ->
                    /\ state' = tracked
                    /\ Return(s, ToolResult(FALSE, NoData,
                          Text("I had trouble modifying that appointment."),
                          Text("'NoneType' object has no attribute 'model_dump'")))
                    /\ UNCHANGED appointments
               [] answer = "error" ->
                    /\ Return(s, ToolResult(FALSE, NoData,
                          Text("I had trouble modifying that appointment."),
                          Text("update failed")))
                    /\ UNCHANGED <<appointments, state>>
    /\ UNCHANGED <<users, calls, now>>

\* ------------------------------------------------------ the slot generator
\* Settings.default_slot_duration.
default_slot_duration == 30

\* TimeSlot(date, time, duration_minutes, is_available); date is what
\* strftime("%Y-%m-%d") writes and time what f"{hour:02d}:{minute:02d}" does.
TimeSlot(day, hour, minute, duration, is_available) ==
    [date |-> DateText(day), time |-> TimeText(hour, minute),
     duration_minutes |-> duration, is_available |-> is_available]

\* A time text that strptime("%H:%M") reads as hour:minute although it is
\* not the text the generator writes for it ("9:00" for "09:00").
Unpadded(h, m) == [kind |-> "time", hour |-> h, minute |-> m, padded |-> FALSE]

\* duration_minutes or self.default_slot_duration: a duration that is not
\* given is written 0 here, and Python's `or` takes None and 0 alike.
DurationOrDefault(duration_minutes) ==
    IF duration_minutes = 0 THEN default_slot_duration ELSE duration_minutes

\* The k-th pass (from 0) through the body of generate_slots' three nested
\* loops: day_offset in range(booking_advance_days), hour in
\* range(business_hours_start, business_hours_end), minute in [0, 30].
PerDay == 2 * (business_hours_end - business_hours_start)
\* The minute loop running over [30, 0].
Candidate_half_hour_first(k) ==
    [day_offset |-> k \div PerDay,
     hour |-> business_hours_start + (k % PerDay) \div 2,
     minute |-> 30 * (1 - (k % 2))]

Candidate(k) ==
    [day_offset |-> k \div PerDay,
     hour |-> business_hours_start + (k % PerDay) \div 2,
     minute |-> 30 * (k % 2)]
Candidates == [k \in 1 .. booking_advance_days * PerDay |-> Candidate(k - 1)]

\* The slot does not fit within business hours: generate_slots skips it.
EndsAfterClose(c, duration) ==
    LET slot_end_hour == c.hour + (c.minute + duration) \div 60
        slot_end_minute == (c.minute + duration) % 60
    IN  \/ slot_end_hour > business_hours_end
        \/ slot_end_hour = business_hours_end /\ slot_end_minute > 0

\* Today's slot is within the one-hour buffer: slot_datetime <= now + 1h.
InBuffer_no_buffer(c, clock) ==
    /\ c.day_offset = 0
    /\ c.hour * 60 + c.minute <= clock.hour * 60 + clock.minute

\* No test of today's slots against the clock.
InBuffer_never(c, clock) == FALSE

InBuffer(c, clock) ==
    /\ c.day_offset = 0
    /\ c.hour * 60 + c.minute <= clock.hour * 60 + clock.minute + 60

\* SlotGenerator.generate_slots at the clock's time: the passes of the loops
\* that reach slots.append, in the order of the loops.
generate_slots(clock, duration_minutes, booked_slots) ==
    LET duration == DurationOrDefault(duration_minutes)
        Appends(c) ==
            /\ weekday(clock.day + c.day_offset) \in business_days
            /\ ~EndsAfterClose(c, duration)
            /\ ~InBuffer(c, clock)
        appended == SelectSeq(Candidates, Appends)
    IN  [i \in 1 .. Len(appended) |->
            LET c == appended[i]
                slot == TimeSlot(clock.day + c.day_offset, c.hour, c.minute,
                                 duration, TRUE)
            IN  [slot EXCEPT !.is_available =
                    <<slot.date, slot.time>> \notin booked_slots]]

IsAvailable(slot) == slot.is_available

\* SlotGenerator.get_available_slots; a limit that is not given is written
\* 0, and `if limit:` takes None and 0 alike.
get_available_slots_unfiltered(clock, duration_minutes, booked_slots, limit) ==
    LET all_slots == generate_slots(clock, duration_minutes, booked_slots)
    IN  IF limit # 0 /\ limit < Len(all_slots)
        THEN SubSeq(all_slots, 1, limit) ELSE all_slots

get_available_slots(clock, duration_minutes, booked_slots, limit) ==
    LET all_slots == generate_slots(clock, duration_minutes, booked_slots)
        available == SelectSeq(all_slots, IsAvailable)
    IN  IF limit # 0 /\ limit < Len(available)
        THEN SubSeq(available, 1, limit) ELSE available

\* SlotGenerator.get_slots_for_date: the default duration, no limit.
get_slots_for_date(date, clock, booked_slots) ==
    LET all_slots == get_available_slots(clock, 0, booked_slots, 0)
        OnDate(slot) == slot.date = date
    IN  SelectSeq(all_slots, OnDate)

\* ------------------------------------------------ the single-request tools
\* AppointmentTools._get_booked_slots: the (date, time) of every scheduled
\* row, [] on any error.
get_booked_slots(fail) ==
    IF fail THEN {}
    ELSE {<<appointments[i].date, appointments[i].time>> :
            i \in {j \in DOMAIN appointments :
                        appointments[j].status = "scheduled"}}

\* The slots fetch_slots offers for the occupancy it has read: those of the
\* date when one is asked for, else the next 10 available ones.
NoDate == [kind |-> "none"]
OfferedSlots(date, booked_slots) ==
    IF date # NoDate
    THEN get_slots_for_date(date, now, booked_slots)
    ELSE get_available_slots(now, 0, booked_slots, 10)

\* AppointmentTools.fetch_slots: it reads the occupancy and offers the slots
\* the generator leaves; the result carries the date asked for and the
\* occupancy read, of which the slots offered are a function.
fetch_slots(s, tool_input) ==
    IF state[s] = NoState
    THEN Refuse(s, Text("I'm sorry, there was a technical issue."),
                Text("Conversation not initialized"))
    ELSE /\ \E fail \in BOOLEAN :
            Return(s, ToolResult(TRUE,
                [date |-> OrElse(tool_input, "date", NoDate),
                 booked_slots |-> get_booked_slots(fail)],
                Text("I have some availability for you."), NoError))
         /\ UNCHANGED <<appointments, users, state, calls, now>>

\* AppointmentStatus(status) raises ValueError for any other text.
AppointmentStatus == {"scheduled", "cancelled", "completed", "no_show"}

\* A retrieve_appointments that does not ask whether the caller is known.
retrieve_appointments_unasked(s, tool_input) ==
    IF state[s] = NoState
    THEN Refuse(s, Text("I'm sorry, there was a technical issue."),
                Text("Conversation not initialized"))
    ELSE /\ \E fail \in BOOLEAN :
            Return(s, ToolResult(TRUE,
                [appointments |->
                    get_appointments_by_phone(state[s].user_phone, None, fail)],
                Text("You have appointments"), NoError))
         /\ UNCHANGED <<appointments, users, state, calls, now>>

\* AppointmentTools.retrieve_appointments.
retrieve_appointments(s, tool_input) ==
    IF state[s] = NoState
    THEN Refuse(s, Text("I'm sorry, there was a technical issue."),
                Text("Conversation not initialized"))
    ELSE IF ~state[s].is_identified
    THEN Refuse(s, Text("I'll need your phone number to look up your appointments."),
                Text("User not identified"))
    ELSE LET status == OrElse(tool_input, "status", "all")
         IN  IF status # "all" /\ status \notin AppointmentStatus
             THEN Refuse(s, Text("I had trouble retrieving your appointments."),
                         Text("not a valid AppointmentStatus"))
             ELSE /\ \E fail \in BOOLEAN :
                     LET ids == get_appointments_by_phone(
                                    state[s].user_phone,
                                    IF status = "all" THEN None ELSE status,
                                    fail)
                         shown == IF OrElse(tool_input, "include_past", FALSE)
                                  THEN ids
                                  ELSE {i \in ids :
                                          appointments[i].date.day >= now.day}
                         upcoming == {i \in shown :
                                        appointments[i].status = "scheduled"}
                     IN  Return(s, ToolResult(TRUE, [appointments |-> shown],
                            IF shown = {}
                            THEN Text("You don't have any appointments scheduled.")
                            ELSE IF upcoming = {}
                            THEN Text("You don't have any upcoming appointments.")
                            ELSE Text("You have appointments"), NoError))
                  /\ UNCHANGED <<appointments, users, state, calls, now>>

Last(seq) == seq[Len(seq)]

\* A Farewell that looks at the cancellations first.
Farewell_cancelled_first(st) ==
    IF st.appointments_cancelled # <<>>
    THEN [text |-> "Your appointment has been cancelled."]
    ELSE IF st.appointments_booked # <<>>
    THEN [text |-> "Great! Your appointment is confirmed",
          date |-> Last(st.appointments_booked).date,
          time |-> Last(st.appointments_booked).time]
    ELSE IF st.appointments_modified # <<>>
    THEN [text |-> "Your appointment has been updated",
          date |-> Last(st.appointments_modified).new_date,
          time |-> Last(st.appointments_modified).new_time]
    ELSE [text |-> "Thank you for calling. Have a great day!"]

\* The closing remark of end_conversation: the last booking, else the last
\* modification, else a cancellation, else thanks.
Farewell(st) ==
    IF st.appointments_booked # <<>>
    THEN [text |-> "Great! Your appointment is confirmed",
          date |-> Last(st.appointments_booked).date,
          time |-> Last(st.appointments_booked).time]
    ELSE IF st.appointments_modified # <<>>
    THEN [text |-> "Your appointment has been updated",
          date |-> Last(st.appointments_modified).new_date,
          time |-> Last(st.appointments_modified).new_time]
    ELSE IF st.appointments_cancelled # <<>>
    THEN [text |-> "Your appointment has been cancelled."]
    ELSE [text |-> "Thank you for calling. Have a great day!"]

\* AppointmentTools.end_conversation.
end_conversation(s, tool_input) ==
    /\ IF state[s] = NoState
       THEN /\ Return(s, ToolResult(TRUE, [reason |-> "given"],
                    [text |-> "Goodbye! Have a great day."], NoError))
            /\ UNCHANGED <<state, calls>>
       ELSE /\ IF state[s].should_end THEN UNCHANGED calls ELSE Proceed
            /\ state' = [state EXCEPT ![s].should_end = TRUE]
            /\ Return(s, ToolResult(TRUE,
                    [appointments_booked |-> state[s].appointments_booked,
                     appointments_modified |-> state[s].appointments_modified,
                     appointments_cancelled |-> state[s].appointments_cancelled,
                     user_identified |-> state[s].is_identified],
                    Farewell(state[s]), NoError))
    /\ UNCHANGED <<appointments, users, now>>

\* ------------------------------------------------------------ execute_tool
\* execute_tool for a name that is not in tool_map.
UnknownTool(s) ==
    Refuse(s, Text("I'm not sure how to do that."), Text("Unknown tool"))

\* An execute_tool that lets the TypeError of the call through.
ParameterError_uncaught(s) ==
    /\ Return(s, Raised("TypeError"))
    /\ UNCHANGED <<appointments, users, state, calls, now>>

\* execute_tool when tool_func(**tool_input) does not bind: the TypeError is
\* caught.
ParameterError(s) ==
    Refuse(s, Text("I had trouble processing that request."), Text("TypeError"))

\* AppointmentTools.execute_tool.
execute_tool(s, tool_name, tool_input) ==
    /\ result = NoResult
    /\ pc[s] = "idle"
    /\ running' = [running EXCEPT ![s] = tool_name]
    /\ IF tool_name \notin ToolNames THEN UnknownTool(s)
       ELSE IF ~Binds(tool_name, tool_input) THEN ParameterError(s)
       ELSE CASE tool_name = "identify_user" -> identify_user(s, tool_input)
              [] tool_name = "fetch_slots" -> fetch_slots(s, tool_input)
              [] tool_name = "book_appointment" ->
                    book_appointment(s, tool_input)
              [] tool_name = "retrieve_appointments" ->
                    retrieve_appointments(s, tool_input)
              [] tool_name = "cancel_appointment" ->
                    cancel_appointment(s, tool_input)
              [] tool_name = "modify_appointment" ->
                    modify_appointment(s, tool_input)
              [] tool_name = "end_conversation" ->
                    end_conversation(s, tool_input)

\* ------------------------------------------------------------ what is asked
\* The dates and times callers ask for: Tuesday and Wednesday of this week,
\* a Sunday, a malformed date; 09:00, 07:30, a malformed time.
ValidDates == {DateText(1), DateText(2)}
ValidTimes == {TimeText(9, 0)}
DateInputs == ValidDates \cup {DateText(6), BadDate}
TimeInputs == ValidTimes \cup {TimeText(7, 30), BadTime}
\* The date and time of a call: any good ones, or one of them not.
SlotInputs ==
    {<<d, t>> : d \in ValidDates, t \in ValidTimes}
    \cup {<<d, TimeText(9, 0)>> : d \in DateInputs}
    \cup {<<DateText(1), t>> : t \in TimeInputs}
\* The ids a call can name: those the table can hold when the call is made,
\* and one it cannot.
IdInputs == 1 .. (MaxCalls - 2)

ToolInputs(tool) ==
    CASE tool = "identify_user" ->
            {[phone_number |-> p] : p \in PhoneInputs} \cup {<<>>}
      [] tool = "fetch_slots" -> {<<>>, [date |-> DateText(1)]}
      [] tool = "book_appointment" ->
            {[date |-> slot[1], time |-> slot[2]] : slot \in SlotInputs}
            \cup {[date |-> d, time |-> t, user_name |-> n] :
                    d \in ValidDates, t \in ValidTimes, n \in NameInputs}
            \cup {[date |-> DateText(1)]}
      [] tool = "retrieve_appointments" ->
            {<<>>, [include_past |-> TRUE], [status |-> "cancelled"],
             [status |-> "booked"]}
      [] tool = "cancel_appointment" ->
            {<<>>, [date |-> DateText(1)]}
            \cup {[appointment_id |-> i] : i \in IdInputs}
            \cup {[date |-> d, time |-> t] : d \in ValidDates, t \in ValidTimes}
      [] tool = "modify_appointment" ->
            {<<>>, [appointment_id |-> 1], [new_date |-> DateText(1)]}
            \cup {[appointment_id |-> i, new_date |-> d] :
                    i \in IdInputs, d \in ValidDates \cup {DateText(6)}}
            \cup {[appointment_id |-> i, new_time |-> t] :
                    i \in IdInputs, t \in {TimeText(9, 0), TimeText(7, 30)}}
            \cup {[current_date |-> c, current_time |-> u, new_date |-> d] :
                    c \in ValidDates, u \in ValidTimes, d \in ValidDates}
      [] tool = "end_conversation" ->
            {<<>>, [reason |-> "user_requested"], [why |-> "user_requested"]}
      [] OTHER -> {<<>>}

\* A tool call arrives at an idle session.
ToolCall(s) ==
    /\ result = NoResult
    /\ pc[s] = "idle"
    /\ \E tool_name \in ToolNames \cup {"delete_appointment"} :
         \E tool_input \in ToolInputs(tool_name) :
            execute_tool(s, tool_name, tool_input)
    /\ UNCHANGED <<agent, services, stateless>>

Next ==
    \E s \in Sessions :
        \/ InitConversation(s)
        \/ ToolCall(s)
        \/ TakeResult(s)
        \/ CreateOrUpdateUserGet(s)
        \/ CreateOrUpdateUserWrite(s)
        \/ CreateAppointmentCheck(s)
        \/ CreateAppointmentInsert(s)
        \/ IncrementUserAppointmentsGet(s)
        \/ IncrementUserAppointmentsWrite(s)
        \/ CancelUpdate(s)
        \/ ModifyGet(s)
        \/ ModifyCheck(s)
        \/ ModifyUpdate(s)

Spec == Init /\ [][Next]_vars

\* ============================================================ the voice agent
\* One call: VoiceAgent and its BrynAgentSession on top of the tools of
\* session AgentSession.  Every await of a handler is a step, so the tasks
\* of the call interleave there.
AgentSession == "s1"

\* Bounds of the call: tool invocations and agent turns.
MaxToolCalls == 2
MaxTurns == 3

\* ToolCallLog as handle_tool_call builds it from the tool's result.
ToolCallLog(tool_name, r) ==
    [session_id |-> session_id, tool_name |-> tool_name,
     success |-> r.success]

\* ConversationSummary.
ConversationSummary(text, key_points, booked, modified, cancelled) ==
    [kind |-> "ConversationSummary", session_id |-> session_id,
     summary_text |-> text, key_points |-> key_points,
     appointments_booked |-> booked, appointments_modified |-> modified,
     appointments_cancelled |-> cancelled]

\* VoiceAgent.create_agent_session; main.py calls it once, before the
\* session starts.
create_agent_session ==
    /\ session_id = None
    /\ UNCHANGED <<services, stateless>>
    /\ session_id' = AgentSession
    /\ is_active' = TRUE
    /\ tool_call_logs' = <<>>
    /\ state' = [state EXCEPT ![AgentSession] = ConversationState(AgentSession)]
    /\ UNCHANGED <<appointments, users, running, pc, frame, result, calls, now>>
    /\ UNCHANGED <<tool_calls, hpc, handled, turns, td, event_rows,
                   summaries>>

\* The session is running: created and not yet closed.
Live == session_id # None /\ ~turns.closed

\* What the LLM of the call asks of the tools: the first caller's phone,
\* Tuesday's taken slot and Wednesday's free one, the appointment in the
\* table, and calls that are refused.
AgentToolInputs(tool) ==
    CASE tool = "identify_user" ->
            {<<>>, [phone_number |->
                      <<"5", "5", "5", "-", "1", "2", "3", "-",
                        "4", "5", "6", "7">>]}
      [] tool = "book_appointment" ->
            {[date |-> d, time |-> TimeText(9, 0)] : d \in ValidDates}
      [] tool = "cancel_appointment" -> {[appointment_id |-> 1]}
      [] tool = "modify_appointment" ->
            {[appointment_id |-> 1, new_date |-> DateText(2)]}
      [] OTHER -> {<<>>}

\* VoiceAgent.handle_tool_call up to its first await: execute_tool starts.
HandleToolCall ==
    /\ Live
    /\ hpc = "idle"
    /\ Len(tool_call_logs) < MaxToolCalls
    /\ UNCHANGED <<services, stateless>>
    /\ hpc' = "tool"
    /\ tool_calls' = [tool_calls EXCEPT !.invocations = @ + 1]
    /\ handled' = NotHandled
    /\ \E tool_name \in ToolNames \cup {"delete_appointment"} :
         \E tool_input \in AgentToolInputs(tool_name) :
            execute_tool(AgentSession, tool_name, tool_input)
    /\ UNCHANGED <<session_id, is_active, tool_call_logs, turns, td,
                   event_rows, summaries>>

\* handle_tool_call logs only the calls that succeeded.
HandleToolCallLog_success_only ==
    /\ hpc = "tool"
    /\ pc[AgentSession] = "returned"
    /\ UNCHANGED <<services, stateless>>
    /\ IF result.kind = "ToolResult"
       THEN /\ tool_call_logs' =
                  IF result.success
                  THEN Append(tool_call_logs,
                              ToolCallLog(running[AgentSession], result))
                  ELSE tool_call_logs
            /\ tool_calls' =
                  IF result.success
                  THEN [tool_calls EXCEPT !.writes = @ + 1]
                  ELSE tool_calls
            /\ hpc' = "log"
            /\ UNCHANGED <<handled, result, pc, running>>
       ELSE /\ handled' = [NotHandled EXCEPT !.result = result]
            /\ hpc' = "idle"
            /\ result' = NoResult
            /\ pc' = [pc EXCEPT ![AgentSession] = "idle"]
            /\ running' = [running EXCEPT ![AgentSession] = None]
            /\ UNCHANGED <<tool_call_logs, tool_calls>>
    /\ UNCHANGED <<appointments, users, state, frame, calls, now>>
    /\ UNCHANGED <<session_id, is_active, turns, td, event_rows, summaries>>

\* handle_tool_call once execute_tool has returned: the log entry is built
\* and appended, and log_tool_call is called.  An exception of execute_tool
\* would leave handle_tool_call here.
HandleToolCallLog ==
    /\ hpc = "tool"
    /\ pc[AgentSession] = "returned"
    /\ UNCHANGED <<services, stateless>>
    /\ IF result.kind = "ToolResult"
       THEN /\ tool_call_logs' =
                  Append(tool_call_logs,
                         ToolCallLog(running[AgentSession], result))
            /\ tool_calls' = [tool_calls EXCEPT !.writes = @ + 1]
            /\ hpc' = "log"
            /\ UNCHANGED <<handled, result, pc, running>>
       ELSE /\ handled' = [NotHandled EXCEPT !.result = result]
            /\ hpc' = "idle"
            /\ result' = NoResult
            /\ pc' = [pc EXCEPT ![AgentSession] = "idle"]
            /\ running' = [running EXCEPT ![AgentSession] = None]
            /\ UNCHANGED <<tool_call_logs, tool_calls>>
    /\ UNCHANGED <<appointments, users, state, frame, calls, now>>
    /\ UNCHANGED <<session_id, is_active, turns, td, event_rows, summaries>>

\* What an audit write of the store does: it inserts the row, or it fails
\* and the failure is logged and swallowed.
WriteOutcomes == {"inserted", "failed"}

\* SupabaseService.log_tool_call answers.
HandleToolCallWritten ==
    /\ hpc = "log"
    /\ UNCHANGED <<services, stateless>>
    /\ \E outcome \in WriteOutcomes :
         handled' = [handled EXCEPT !.write = outcome]
    /\ hpc' = "notify"
    /\ UNCHANGED vars
    /\ UNCHANGED <<session_id, is_active, tool_call_logs, tool_calls,
                   turns, td, event_rows, summaries>>

\* The display callback on_tool_call: not set, returns, or raises.
CallbackOutcomes == {"none", "returned", "raised"}

\* The callback raised and handle_tool_call does not catch it.
Notify_uncaught(outcome) ==
    IF outcome = "raised"
    THEN [handled EXCEPT
             !.result = [session |-> AgentSession] @@ Raised("Exception"),
             !.callback = outcome]
    ELSE [handled EXCEPT !.result = result, !.callback = outcome]

\* handle_tool_call's end: the callback is awaited inside try/except, then
\* the tool's result is returned.
Notify(outcome) ==
    [handled EXCEPT !.result = result, !.callback = outcome]

HandleToolCallReturn ==
    /\ hpc = "notify"
    /\ UNCHANGED <<services, stateless>>
    /\ \E outcome \in CallbackOutcomes : handled' = Notify(outcome)
    /\ hpc' = "idle"
    /\ result' = NoResult
    /\ pc' = [pc EXCEPT ![AgentSession] = "idle"]
    /\ running' = [running EXCEPT ![AgentSession] = None]
    /\ UNCHANGED <<appointments, users, state, frame, calls, now>>
    /\ UNCHANGED <<session_id, is_active, tool_call_logs, tool_calls,
                   turns, td, event_rows, summaries>>

\* VoiceAgent.end_conversation up to its first await, run by task t:
\* is_active is cleared and log_event is called.
VoiceAgentEndConversation(t) ==
    /\ is_active' = FALSE
    /\ td' = [td EXCEPT ![t] = [NoTeardown EXCEPT !.pc = "event"]]
    /\ event_rows' = [event_rows EXCEPT !.requests = @ + 1]

\* BrynAgentSession.on_agent_turn_completed: the turn joins the history and,
\* when the tools' state says should_end, the conversation is ended.
OnAgentTurnCompleted ==
    /\ Live
    /\ td["turn"].pc = "idle"
    /\ turns.count < MaxTurns
    /\ UNCHANGED <<services, stateless>>
    /\ turns' = [turns EXCEPT !.count = @ + 1]
    /\ IF state[AgentSession].should_end
       THEN VoiceAgentEndConversation("turn")
       ELSE UNCHANGED <<is_active, td, event_rows>>
    /\ UNCHANGED vars
    /\ UNCHANGED <<session_id, tool_call_logs, tool_calls, hpc, handled,
                   summaries>>

\* BrynAgentSession.on_close: an active conversation is ended.
OnClose ==
    /\ Live
    /\ UNCHANGED <<services, stateless>>
    /\ turns' = [turns EXCEPT !.closed = TRUE]
    /\ IF is_active
       THEN VoiceAgentEndConversation("close")
       ELSE UNCHANGED <<is_active, td, event_rows>>
    /\ UNCHANGED vars
    /\ UNCHANGED <<session_id, tool_call_logs, tool_calls, hpc, handled,
                   summaries>>

\* SupabaseService.log_event answers; generate_summary starts and calls
\* LLMService.generate_summary.
EndConversationLogged(t) ==
    /\ td[t].pc = "event"
    /\ UNCHANGED <<services, stateless>>
    /\ \E outcome \in WriteOutcomes :
         event_rows' =
            IF outcome = "failed"
            THEN [event_rows EXCEPT !.failed = TRUE]
            ELSE event_rows
    /\ td' = [td EXCEPT ![t].pc = "llm"]
    /\ UNCHANGED vars
    /\ UNCHANGED <<session_id, is_active, tool_call_logs, tool_calls, hpc,
                   handled, turns, summaries>>

\* What a provider call does, and what the text of the answering provider
\* parses to.
ProviderOutcomes == {"answers", "fails"}
AnswerTexts == {"object", "object without summary", "not json", "array"}
\* The transcript can be formatted or not (a content that is a list of
\* strings cannot).
Transcripts == {"formats", "does not format"}

\* LLMService.generate_summary: the transcript is formatted outside the try;
\* Gemini is asked, then Groq if Gemini failed; the text is parsed as JSON.
\* The answer is a dict, another JSON value, or an exception.
LLMGenerateSummary(transcript, gemini, groq, text) ==
    IF transcript = "does not format" THEN [kind |-> "raised"]
    ELSE IF gemini = "fails" /\ groq = "fails"
    THEN [kind |-> "dict", summary |-> "Conversation completed.",
          key_points |-> "Unable to generate detailed summary"]
    ELSE CASE text = "object" ->
                [kind |-> "dict", summary |-> "overview",
                 key_points |-> "outcomes"]
           [] text = "object without summary" ->
                [kind |-> "dict", summary |-> None, key_points |-> "outcomes"]
           [] text = "not json" ->
                [kind |-> "dict", summary |-> "text",
                 key_points |-> "Conversation completed"]
           [] text = "array" -> [kind |-> "list"]

\* The summary generate_summary returns when anything in its try has failed.
MinimalSummary ==
    ConversationSummary("Conversation ended.", "Summary generation failed",
                        <<>>, <<>>, <<>>)

\* generate_summary fails when it cannot build the summary.
GenerateSummaryFallback_raises(t) ==
    td' = [td EXCEPT ![t] = [NoTeardown EXCEPT !.returned =
                                 [kind |-> "raised"]]]

\* generate_summary's except branch: the minimal summary is returned and
\* nothing is saved.
GenerateSummaryFallback(t) ==
    td' = [td EXCEPT ![t] = [NoTeardown EXCEPT !.returned = MinimalSummary]]

\* generate_summary once LLMService.generate_summary has answered: the
\* summary is built from the answer and from the three lists of the tools'
\* state as they are now, and save_conversation_summary is called.  An
\* answer that is no dict, or whose summary is no string, fails the build.
GenerateSummaryBuild(t) ==
    /\ td[t].pc = "llm"
    /\ UNCHANGED <<services, stateless>>
    /\ \E transcript \in Transcripts, gemini \in ProviderOutcomes,
          groq \in ProviderOutcomes, text \in AnswerTexts :
         LET summary_data == LLMGenerateSummary(transcript, gemini, groq, text)
             st == state[AgentSession]
         IN  IF summary_data.kind = "dict" /\ summary_data.summary # None
             THEN td' = [td EXCEPT ![t] =
                     [pc |-> "save",
                      summary |-> ConversationSummary(
                          summary_data.summary, summary_data.key_points,
                          st.appointments_booked, st.appointments_modified,
                          st.appointments_cancelled),
                      returned |-> NoSummary]]
             ELSE GenerateSummaryFallback(t)
    /\ UNCHANGED vars
    /\ UNCHANGED <<session_id, is_active, tool_call_logs, tool_calls, hpc,
                   handled, turns, event_rows, summaries>>

\* SupabaseService.save_conversation_summary: a plain insert; a failure is
\* logged and swallowed.
save_conversation_summary(table, summary, outcome) ==
    IF outcome = "inserted" THEN Append(table, summary) ELSE table

\* save_conversation_summary answers and generate_summary returns the
\* summary it has built.
GenerateSummarySaved(t) ==
    /\ td[t].pc = "save"
    /\ UNCHANGED <<services, stateless>>
    /\ \E outcome \in WriteOutcomes :
         summaries' = save_conversation_summary(summaries, td[t].summary,
                                                outcome)
    /\ td' = [td EXCEPT ![t] = [NoTeardown EXCEPT !.returned = td[t].summary]]
    /\ UNCHANGED vars
    /\ UNCHANGED <<session_id, is_active, tool_call_logs, tool_calls, hpc,
                   handled, turns, event_rows>>

AgentNext ==
    \/ create_agent_session
    \/ HandleToolCall
    \/ CreateOrUpdateUserGet(AgentSession)
    \/ CreateOrUpdateUserWrite(AgentSession)
    \/ CreateAppointmentCheck(AgentSession)
    \/ CreateAppointmentInsert(AgentSession)
    \/ IncrementUserAppointmentsGet(AgentSession)
    \/ IncrementUserAppointmentsWrite(AgentSession)
    \/ CancelUpdate(AgentSession)
    \/ ModifyGet(AgentSession)
    \/ ModifyCheck(AgentSession)
    \/ ModifyUpdate(AgentSession)
    \/ HandleToolCallLog
    \/ HandleToolCallWritten
    \/ HandleToolCallReturn
    \/ OnAgentTurnCompleted
    \/ OnClose
    \/ \E t \in Tasks : EndConversationLogged(t)
    \/ \E t \in Tasks : GenerateSummaryBuild(t)
    \/ \E t \in Tasks : GenerateSummarySaved(t)

allvars == <<vars, agent, services, stateless>>

SpecAgent == Init /\ [][AgentNext]_allvars

\* ============================================================== properties
\* The scheduled rows of the appointments table on a date and time.
ScheduledAt(date, time) ==
    {i \in DOMAIN appointments :
        /\ appointments[i].date = date
        /\ appointments[i].time = time
        /\ appointments[i].status = "scheduled"}

Occupied(date, time) == ScheduledAt(date, time) # {}

\* The session has an identified caller.
IsIdentified(s) == state[s] # NoState /\ state[s].is_identified

\* This step ends the tool call of session s.
Returns(s) == pc[s] # "returned" /\ pc'[s] = "returned"

\* C1: in every reachable state, with sessions whose store requests
\* interleave, no date and time has more than one scheduled appointment.
C1_OneScheduledPerSlot ==
    \A i, j \in DOMAIN appointments :
        ( /\ appointments[i].status = "scheduled"
          /\ appointments[j].status = "scheduled"
          /\ appointments[i].date = appointments[j].date
          /\ appointments[i].time = appointments[j].time ) => i = j

\* The tool inputs of a tool that bind to its parameters.
BoundInputs ==
    [tool_name \in ToolNames |->
        {ti \in ToolInputs(tool_name) : Binds(tool_name, ti)}]

\* The tool inputs of a tool that do not.
UnboundInputs ==
    [tool_name \in ToolNames |->
        {ti \in ToolInputs(tool_name) : ~Binds(tool_name, ti)}]

\* C2: book_appointment of an identified session on a valid slot that a
\* scheduled appointment occupies returns success=false and leaves the
\* appointments, the users (their counters) and the session's
\* appointments_booked as they were.
C2_OccupiedSlotRefused ==
    [][\A s \in Sessions :
        (pc[s] = "idle" /\ running'[s] = "book_appointment" /\ IsIdentified(s))
        => \A ti \in BoundInputs["book_appointment"] :
             ( /\ validate_slot(ti.date, ti.time, now)[1]
               /\ Occupied(ti.date, ti.time)
               /\ execute_tool(s, "book_appointment", ti) )
             => /\ Returns(s)
                /\ result'.kind = "ToolResult"
                /\ result'.success = FALSE
                /\ appointments' = appointments
                /\ users' = users
                /\ state'[s].appointments_booked =
                      state[s].appointments_booked
      ]_vars

\* Every slot callers ask for that validate_slot accepts is occupied.
AllValidSlotsOccupied ==
    \A slot \in SlotInputs :
        validate_slot(slot[1], slot[2], now)[1] => Occupied(slot[1], slot[2])

\* An identified session has been refused a slot that passed validate_slot
\* while every such slot was occupied.
C2_Witness ==
    \E s \in Sessions :
        /\ pc[s] = "returned"
        /\ running[s] = "book_appointment"
        /\ IsIdentified(s)
        /\ result.error = Text("Slot already booked")
        /\ AllValidSlotsOccupied

\* Where a book_appointment call stands once its row is inserted.
Inserted ==
    {"increment_user_appointments_get", "increment_user_appointments_write"}

\* C3: a book_appointment call returns success only after its insert; right
\* after the insert check_slot_available of its date and time is false, and
\* the rest of the call leaves the table alone, so that with no other
\* session acting on the slot it is false when the call returns.  After a
\* successful cancel_appointment of an appointment that alone was scheduled
\* on its date and time, check_slot_available of them is true again.
C3_BookCancelRoundTrip ==
    [][\A s \in Sessions :
        /\ ( /\ running[s] = "book_appointment"
             /\ Returns(s)
             /\ result'.kind = "ToolResult"
             /\ result'.success )
           => pc[s] \in Inserted
        /\ (pc[s] = "create_appointment_insert" /\ pc'[s] \in Inserted)
           => \A booked \in {frame[s]} :
                 ~check_slot_available(booked.date, booked.time, FALSE)'
        /\ (pc[s] \in Inserted /\ pc'[s] # pc[s])
           => appointments' = appointments
        /\ ( /\ running[s] = "cancel_appointment"
             /\ Returns(s)
             /\ result'.kind = "ToolResult"
             /\ result'.success )
           => \A apt \in {frame[s].apt} :
                 ScheduledAt(apt.date, apt.time) = {apt.id}
                 => check_slot_available(apt.date, apt.time, FALSE)'
      ]_vars

\* A session has cancelled the appointment it had booked, and the slot is
\* available again.
C3_Witness ==
    \E s \in Sessions :
        /\ pc[s] = "returned"
        /\ running[s] = "cancel_appointment"
        /\ result.success
        /\ \E k \in DOMAIN state[s].appointments_booked :
              LET e == state[s].appointments_booked[k]
              IN  /\ Last(state[s].appointments_cancelled).id = e.id
                  /\ check_slot_available(e.date, e.time, FALSE)

\* The tools that need an identified caller.
IdentifiedTools ==
    {"book_appointment", "retrieve_appointments", "cancel_appointment",
     "modify_appointment"}

\* C4: while the session's is_identified is false, book_appointment,
\* retrieve_appointments, cancel_appointment and modify_appointment return a
\* ToolResult with success=false (nothing is raised), and the appointments,
\* the users and the session's state, its three lists included, stay as
\* they were.
C4_UnidentifiedRefused ==
    [][\A s \in Sessions :
        ( /\ pc[s] = "idle"
          /\ running'[s] \in IdentifiedTools
          /\ state[s] # NoState
          /\ ~state[s].is_identified )
        => /\ Returns(s)
           /\ result'.kind = "ToolResult"
           /\ result'.success = FALSE
           /\ appointments' = appointments
           /\ users' = users
           /\ state'[s] = state[s]
      ]_vars

\* A session that is not identified has been refused by one of these tools.
C4_Witness ==
    \E s \in Sessions :
        /\ pc[s] = "returned"
        /\ running[s] \in IdentifiedTools
        /\ state[s] # NoState
        /\ ~state[s].is_identified
        /\ result.success = FALSE
        /\ result.error = Text("User not identified")

\* The appointment a cancel_appointment or modify_appointment input names
\* is not one of phone's: the id is of a row of another phone, or, by date
\* and time, phone has no scheduled row there and another phone has one.
NamesAnothers(ti, id_key, date_key, time_key, phone) ==
    IF Has(ti, id_key)
    THEN /\ ti[id_key] \in DOMAIN appointments
         /\ appointments[ti[id_key]].user_phone # phone
    ELSE /\ Has(ti, date_key) /\ Has(ti, time_key)
         /\ ScheduledAt(ti[date_key], ti[time_key]) # {}
         /\ \A i \in ScheduledAt(ti[date_key], ti[time_key]) :
               appointments[i].user_phone # phone

\* The call has ended with the failure "Appointment not found".
NotFound(s) ==
    /\ Returns(s)
    /\ result'.kind = "ToolResult"
    /\ result'.success = FALSE
    /\ result'.error = Text("Appointment not found")

\* C5: in a session identified as P, no step of cancel_appointment or
\* modify_appointment changes an appointment whose user_phone is not P; a
\* call that names such an appointment, by id or by date and time, fails
\* with "Appointment not found".
C5_OthersAppointmentsUntouched ==
    [][\A s \in Sessions :
        ( /\ IsIdentified(s)
          /\ pc'[s] # pc[s]
          /\ running'[s] \in {"cancel_appointment", "modify_appointment"} )
        => /\ \A i \in DOMAIN appointments :
                appointments[i].user_phone # state[s].user_phone
                => appointments'[i] = appointments[i]
           /\ (pc[s] = "idle" /\ running'[s] = "cancel_appointment")
              => \A ti \in BoundInputs["cancel_appointment"] :
                      ( /\ NamesAnothers(ti, "appointment_id", "date", "time",
                                         state[s].user_phone)
                        /\ execute_tool(s, "cancel_appointment", ti) )
                      => NotFound(s)
           /\ (pc[s] = "idle" /\ running'[s] = "modify_appointment")
              => \A ti \in BoundInputs["modify_appointment"] :
                      ( /\ Has(ti, "new_date") \/ Has(ti, "new_time")
                        /\ NamesAnothers(ti, "appointment_id", "current_date",
                                         "current_time", state[s].user_phone)
                        /\ execute_tool(s, "modify_appointment", ti) )
                      => NotFound(s)
      ]_vars

\* A session has asked to cancel, by date and time, where only another
\* caller has a scheduled appointment, and was told it was not found.
C5_Witness ==
    \E s \in Sessions :
        /\ pc[s] = "returned"
        /\ running[s] = "cancel_appointment"
        /\ IsIdentified(s)
        /\ result.error = Text("Appointment not found")
        /\ "date" \in DOMAIN result.verbal_response
        /\ LET there == ScheduledAt(result.verbal_response.date,
                                    result.verbal_response.time)
           IN  /\ there # {}
               /\ \A i \in there :
                     appointments[i].user_phone # state[s].user_phone

\* C6: the ids of the appointments table only grow, by one id at the insert
\* of a book_appointment call, which then returns success; no step of
\* cancel_appointment or modify_appointment adds or removes an id, and a
\* modified appointment keeps its id.
C6_IdsOnlyGrowByBooking ==
    [][/\ DOMAIN appointments \subseteq DOMAIN appointments'
       /\ DOMAIN appointments' # DOMAIN appointments
          => \E s \in Sessions :
                /\ running[s] = "book_appointment"
                /\ pc[s] = "create_appointment_insert"
                /\ pc'[s] \in Inserted
                /\ DOMAIN appointments' =
                      DOMAIN appointments \cup {frame'[s].created}
       /\ \A s \in Sessions :
            /\ (pc[s] \in Inserted /\ pc'[s] # pc[s])
               => \/ pc'[s] \in Inserted
                  \/ /\ Returns(s)
                     /\ result'.kind = "ToolResult"
                     /\ result'.success
                     /\ result'.data.appointment = frame[s].created
            /\ (pc[s] = "modify_update" /\ pc'[s] # pc[s])
               => \A i \in DOMAIN appointments :
                     i # frame[s].apt.id => appointments'[i] = appointments[i]
            /\ ( /\ running[s] = "modify_appointment"
                 /\ Returns(s)
                 /\ result'.kind = "ToolResult"
                 /\ result'.success )
               => /\ result'.data.appointment = frame[s].apt.id
                  /\ Last(state'[s].appointments_modified).id = frame[s].apt.id
      ]_vars

\* A modify_appointment call has returned success with more than the first
\* caller's earlier appointment in the table.
C6_Witness ==
    \E s \in Sessions :
        /\ pc[s] = "returned"
        /\ running[s] = "modify_appointment"
        /\ result.success
        /\ Len(appointments) > 1

\* C7: when the slot is occupied at create_appointment's own check, after
\* book_appointment's check has found it free, the call returns
\* success=false at once: nothing is inserted, nothing is appended to
\* appointments_booked, and there is no second attempt.
C7_RecheckRefuses ==
    [][\A s \in Sessions :
        ( /\ pc[s] = "create_appointment_check"
          /\ pc'[s] # pc[s]
          /\ Occupied(frame[s].date, frame[s].time) )
        => /\ Returns(s)
           /\ result'.kind = "ToolResult"
           /\ result'.success = FALSE
           /\ appointments' = appointments
           /\ state' = state
      ]_vars

\* A book_appointment call has failed at create_appointment's check on a
\* slot that is occupied.
C7_Witness ==
    \E s \in Sessions :
        /\ pc[s] = "returned"
        /\ running[s] = "book_appointment"
        /\ result.success = FALSE
        /\ result.error.text = "Slot is already booked"
        /\ Occupied(result.error.date, result.error.time)
        /\ state[s].appointments_booked = <<>>

\* The three lists of a session's state.
Tracked(st) ==
    <<st.appointments_booked, st.appointments_modified,
      st.appointments_cancelled>>

\* C8: a call that returns success=false, one whose store write has failed
\* or has returned no row included, adds no entry to the session's
\* appointments_booked, appointments_modified and appointments_cancelled.
C8_FailureTracksNothing ==
    [][\A s \in Sessions :
        ( /\ Returns(s)
          /\ result'.kind = "ToolResult"
          /\ result'.success = FALSE
          /\ state[s] # NoState )
        => Tracked(state'[s]) = Tracked(state[s])
      ]_vars

\* C8, the rest: a step appends to a list exactly one entry, and it is the
\* step in which a book_appointment, modify_appointment or cancel_appointment
\* call ends.
C8_OneEntryPerEndingCall ==
    [][\A s \in Sessions :
        (state[s] # NoState /\ Tracked(state'[s]) # Tracked(state[s]))
        => /\ Returns(s)
           /\ \/ /\ running[s] = "book_appointment"
                 /\ state'[s].appointments_booked =
                       Append(state[s].appointments_booked,
                              Last(state'[s].appointments_booked))
                 /\ state'[s].appointments_modified =
                       state[s].appointments_modified
                 /\ state'[s].appointments_cancelled =
                       state[s].appointments_cancelled
              \/ /\ running[s] = "modify_appointment"
                 /\ state'[s].appointments_modified =
                       Append(state[s].appointments_modified,
                              Last(state'[s].appointments_modified))
                 /\ state'[s].appointments_booked =
                       state[s].appointments_booked
                 /\ state'[s].appointments_cancelled =
                       state[s].appointments_cancelled
              \/ /\ running[s] = "cancel_appointment"
                 /\ state'[s].appointments_cancelled =
                       Append(state[s].appointments_cancelled,
                              Last(state'[s].appointments_cancelled))
                 /\ state'[s].appointments_booked =
                       state[s].appointments_booked
                 /\ state'[s].appointments_modified =
                       state[s].appointments_modified
      ]_vars

\* The farewell the three lists call for: the first of booked, modified and
\* cancelled that is not empty decides.
FarewellText(st) ==
    CASE st.appointments_booked # <<>> ->
            "Great! Your appointment is confirmed"
      [] st.appointments_booked = <<>> /\ st.appointments_modified # <<>> ->
            "Your appointment has been updated"
      [] /\ st.appointments_booked = <<>>
         /\ st.appointments_modified = <<>>
         /\ st.appointments_cancelled # <<>> ->
            "Your appointment has been cancelled."
      [] OTHER -> "Thank you for calling. Have a great day!"

\* C9: end_conversation of an initialized session sets should_end and says
\* the farewell of the first non-empty list among booked, modified and
\* cancelled, else the generic one; after exactly one booking the farewell
\* names that booking's date and time and the result's appointments_booked
\* has exactly one entry.
C9_EndConversation ==
    [][\A s \in Sessions :
        ( /\ pc[s] = "idle"
          /\ running'[s] = "end_conversation"
          /\ state[s] # NoState
          /\ \E ti \in BoundInputs["end_conversation"] :
                execute_tool(s, "end_conversation", ti) )
        => /\ Returns(s)
           /\ result'.kind = "ToolResult"
           /\ result'.success
           /\ state'[s].should_end
           /\ result'.verbal_response.text = FarewellText(state[s])
           /\ Len(state[s].appointments_booked) = 1
              => /\ result'.verbal_response.date =
                       state[s].appointments_booked[1].date
                 /\ result'.verbal_response.time =
                       state[s].appointments_booked[1].time
                 /\ Len(result'.data.appointments_booked) = 1
      ]_vars

\* end_conversation has returned in a session with exactly one booking.
C9_Witness ==
    \E s \in Sessions :
        /\ pc[s] = "returned"
        /\ running[s] = "end_conversation"
        /\ state[s] # NoState
        /\ state[s].should_end
        /\ Len(state[s].appointments_booked) = 1
        /\ Len(result.data.appointments_booked) = 1
        /\ "date" \in DOMAIN result.verbal_response

\* C10: execute_tool always returns a ToolResult, it never raises; for a
\* tool name it does not know and for an input that does not bind to the
\* tool's parameters the result has success=false, and the session state and
\* the store are as they were.
C10_ExecuteToolNeverRaises ==
    [][\A s \in Sessions :
        /\ Returns(s) => result'.kind = "ToolResult"
        /\ ( /\ pc[s] = "idle"
             /\ pc'[s] # pc[s]
             /\ \/ running'[s] \notin ToolNames
                \/ \E ti \in UnboundInputs[running'[s]] :
                      execute_tool(s, running'[s], ti) )
           => /\ Returns(s)
              /\ result'.kind = "ToolResult"
              /\ result'.success = FALSE
              /\ state' = state
              /\ appointments' = appointments
              /\ users' = users
      ]_vars

\* execute_tool has answered a call whose input does not bind.
C10_Witness ==
    \E s \in Sessions :
        /\ pc[s] = "returned"
        /\ running[s] \in ToolNames
        /\ result.kind = "ToolResult"
        /\ result.success = FALSE
        /\ result.error = Text("TypeError")


\* ------------------------------------------------------------ the agent's call
\* ============================================================ the LLM service
\* What a provider does with a request: it answers with text, it answers
\* with a tool call, or it fails.
ProviderAnswers == {"text", "tool_use", "fails"}

\* LLMResponse as a provider builds it.
LLMResponse(provider, answer) ==
    [content |-> IF answer = "text" THEN "reply" ELSE None,
     tool_calls |-> IF answer = "tool_use"
                    THEN << [id |-> "call_0", name |-> "fetch_slots"] >>
                    ELSE <<>>,
     stop_reason |-> IF answer = "tool_use" THEN "tool_use" ELSE "end_turn",
     provider |-> provider]

\* CompatibleResponse: the response wrapped, with its stop reason and its
\* content blocks, the text block first.
CompatibleResponse(response) ==
    [kind |-> "CompatibleResponse", response |-> response,
     stop_reason |-> response.stop_reason,
     content |->
        (IF response.content # None
         THEN << [type |-> "text", text |-> response.content] >>
         ELSE <<>>)
        \o [i \in DOMAIN response.tool_calls |->
               [type |-> "tool_use", id |-> response.tool_calls[i].id,
                name |-> response.tool_calls[i].name]]]

\* LLMService.generate_response up to its first await: Gemini is asked.
GenerateResponse(r) ==
    /\ llm[r].pc = "idle"
    /\ llm' = [llm EXCEPT ![r] =
                 [pc |-> "gemini", calls |-> << >>, response |-> NoResponse]]
    /\ UNCHANGED <<last_provider, current_state, transition_lock, transitions,
                   avatar_state>>
    /\ UNCHANGED <<vars, agent, stateless>>

\* generate_response gives up when Gemini fails.
GeminiFailed_no_fallback(r, call) ==
    /\ llm' = [llm EXCEPT ![r] =
                 [pc |-> "done", calls |-> Append(llm[r].calls, call),
                  response |-> [kind |-> "raised", exc |-> "RuntimeError"]]]
    /\ UNCHANGED last_provider

\* generate_response when Gemini has failed: Groq is asked.
GeminiFailed(r, call) ==
    /\ llm' = [llm EXCEPT ![r] =
                 [pc |-> "groq", calls |-> Append(llm[r].calls, call),
                  response |-> NoResponse]]
    /\ UNCHANGED last_provider

\* The provider's answer is returned, wrapped.
Answered(r, call) ==
    /\ last_provider' = call.provider
    /\ llm' = [llm EXCEPT ![r] =
                 [pc |-> "done", calls |-> Append(llm[r].calls, call),
                  response |->
                     CompatibleResponse(
                        LLMResponse(call.provider, call.answer))]]

\* Gemini's call ends.
GeminiAnswers(r) ==
    /\ llm[r].pc = "gemini"
    /\ \E answer \in ProviderAnswers :
         LET call == [provider |-> "gemini", answer |-> answer]
         IN  IF answer = "fails" THEN GeminiFailed(r, call)
             ELSE Answered(r, call)
    /\ UNCHANGED <<current_state, transition_lock, transitions, avatar_state>>
    /\ UNCHANGED <<vars, agent, stateless>>

\* Groq's call ends; when it fails too, generate_response raises.
GroqAnswers(r) ==
    /\ llm[r].pc = "groq"
    /\ \E answer \in ProviderAnswers :
         LET call == [provider |-> "groq", answer |-> answer]
         IN  IF answer = "fails"
             THEN /\ llm' = [llm EXCEPT ![r] =
                        [pc |-> "done", calls |-> Append(llm[r].calls, call),
                         response |->
                            [kind |-> "raised", exc |-> "RuntimeError"]]]
                  /\ UNCHANGED last_provider
             ELSE Answered(r, call)
    /\ UNCHANGED <<current_state, transition_lock, transitions, avatar_state>>
    /\ UNCHANGED <<vars, agent, stateless>>

\* The caller of generate_response has its answer.
TakeResponse(r) ==
    /\ llm[r].pc = "done"
    /\ llm' = [llm EXCEPT ![r] = NoRequest]
    /\ UNCHANGED <<last_provider, current_state, transition_lock, transitions,
                   avatar_state>>
    /\ UNCHANGED <<vars, agent, stateless>>

LLMNext ==
    \E r \in Requests :
        \/ GenerateResponse(r)
        \/ GeminiAnswers(r)
        \/ GroqAnswers(r)
        \/ TakeResponse(r)

SpecLLM == Init /\ [][LLMNext]_allvars

\* ================================================================ the avatar
\* AvatarStateManager.STATES, and what callers ask for: the states and a
\* name that is none.
STATES == {"idle", "listening", "thinking", "speaking"}
StateInputs == STATES \cup {"waving"}

\* Bound: the transition_to calls made.
MaxTransitions == 4

\* No task holds the lock or waits for it.
LockFree == transition_lock.holder = None /\ transition_lock.waiters = <<>>

\* transition_to takes no lock: every call goes on to set_state at once.
Acquire_unlocked(c, new_state) ==
    /\ transition_lock' = [transition_lock EXCEPT !.calls = @ + 1, !.last = c]
    /\ transitions' = [transitions EXCEPT ![c] =
            [pc |-> "set_state", new_state |-> new_state, success |-> FALSE]]

\* async with self._transition_lock: a free lock is taken at once and
\* set_state is called; a held one queues the caller, first come first
\* served.
Acquire(c, new_state) ==
    IF LockFree
    THEN /\ transition_lock' =
              [transition_lock EXCEPT !.holder = c, !.calls = @ + 1, !.last = c]
         /\ transitions' = [transitions EXCEPT ![c] =
                 [pc |-> "set_state", new_state |-> new_state,
                  success |-> FALSE]]
    ELSE /\ transition_lock' =
              [transition_lock EXCEPT !.waiters = Append(@, c),
                                      !.calls = @ + 1, !.last = c]
         /\ transitions' = [transitions EXCEPT ![c] =
                 [pc |-> "waiting", new_state |-> new_state,
                  success |-> FALSE]]

\* AvatarStateManager.transition_to up to its first await: an invalid name
\* returns False, the current label returns True, anything else goes for the
\* lock.
TransitionTo(c, new_state) ==
    /\ transitions[c].pc = "idle"
    /\ transition_lock.calls < MaxTransitions
    /\ IF new_state \notin STATES
       THEN /\ transitions' = [transitions EXCEPT ![c] =
                    [NoTransition EXCEPT !.new_state = new_state]]
            /\ transition_lock' = [transition_lock EXCEPT !.calls = @ + 1, !.last = c]
       ELSE IF new_state = current_state
       THEN /\ transitions' = [transitions EXCEPT ![c] =
                    [NoTransition EXCEPT !.new_state = new_state,
                                         !.success = TRUE]]
            /\ transition_lock' = [transition_lock EXCEPT !.calls = @ + 1, !.last = c]
       ELSE Acquire(c, new_state)
    /\ UNCHANGED <<current_state, avatar_state, llm, last_provider>>
    /\ UNCHANGED <<vars, agent, stateless>>

\* What the avatar service does with a set_state request: it accepts it, or
\* the request fails (no session, an HTTP error).
SetStateOutcomes == {"accepted", "failed"}

\* BeyondPresenceService.set_state: the avatar service handles the request.
SetState(c) ==
    /\ transitions[c].pc = "set_state"
    /\ \E outcome \in SetStateOutcomes :
         IF outcome = "accepted"
         THEN /\ avatar_state' = transitions[c].new_state
              /\ transitions' = [transitions EXCEPT ![c].pc = "answered",
                                                    ![c].success = TRUE]
         ELSE /\ UNCHANGED avatar_state
              /\ transitions' = [transitions EXCEPT ![c].pc = "answered"]
    /\ UNCHANGED <<current_state, transition_lock, llm, last_provider>>
    /\ UNCHANGED <<vars, agent, stateless>>

\* The lock is released: the first waiter, if any, holds it and calls
\* set_state.
Release ==
    IF transition_lock.waiters = <<>>
    THEN [transition_lock EXCEPT !.holder = None]
    ELSE [transition_lock EXCEPT !.holder = Head(transition_lock.waiters),
                                 !.waiters = Tail(@)]

\* transition_to once set_state has answered: on success the label is set;
\* the lock is released and the answer returned.
TransitionDone(c) ==
    /\ transitions[c].pc = "answered"
    /\ current_state' = IF transitions[c].success
                        THEN transitions[c].new_state
                        ELSE current_state
    /\ transition_lock' = Release
    /\ transitions' =
          [d \in Callers |->
              IF d = c THEN [transitions[c] EXCEPT !.pc = "idle"]
              ELSE IF Release.holder = d /\ transitions[d].pc = "waiting"
              THEN [transitions[d] EXCEPT !.pc = "set_state"]
              ELSE transitions[d]]
    /\ UNCHANGED <<avatar_state, llm, last_provider>>
    /\ UNCHANGED <<vars, agent, stateless>>

AvatarNext ==
    \E c \in Callers :
        \/ \E new_state \in StateInputs : TransitionTo(c, new_state)
        \/ SetState(c)
        \/ TransitionDone(c)

SpecAvatar == Init /\ [][AvatarNext]_allvars

\* No end_conversation of the agent is in flight.
NoTeardownInFlight == \A t \in Tasks : td[t].pc = "idle"

\* C11: for one session a ConversationSummary is persisted exactly once, at
\* call end, whatever the order of the end_conversation tool call, the agent
\* turns and the close of the session.  Stated here is the half no failure of
\* the store excuses: the conversation_summaries table never holds a second
\* row of the session.
C11_SummaryPersistedOnce ==
    Cardinality({i \in DOMAIN summaries :
                    summaries[i].session_id = AgentSession}) <= 1


\* The session is over: it has closed and none of its handlers is running.
SessionOver == turns.closed /\ hpc = "idle" /\ NoTeardownInFlight

\* The three lists of a summary.
Listed(summary) ==
    <<summary.appointments_booked, summary.appointments_modified,
      summary.appointments_cancelled>>

\* C12: when the session is over, the ConversationSummary its teardown has
\* produced lists what the session's successful book, modify and cancel calls
\* recorded: its three lists equal the three lists of the session state.
C12_SummaryListsState ==
    SessionOver =>
        \A t \in Tasks :
            td[t].returned.kind = "ConversationSummary" =>
                Listed(td[t].returned) = Tracked(state[AgentSession])


\* C13: VoiceAgent.end_conversation always returns a ConversationSummary and
\* never raises, whatever the event log write, the providers and the summary
\* write do: the step that ends it returns the summary that was built, or
\* the minimal summary when building one has failed.
C13_TeardownReturnsSummary ==
    [][\A t \in Tasks :
          (td[t].pc # "idle" /\ td'[t].pc = "idle") =>
              /\ td'[t].returned.kind = "ConversationSummary"
              /\ td[t].pc = "save" => td'[t].returned = td[t].summary
              /\ td[t].pc = "llm" => td'[t].returned = MinimalSummary
              /\ td[t].pc # "event"]_allvars

\* A teardown whose event log write failed and whose summary could not be
\* built has returned the minimal summary.
C13_Witness ==
    /\ event_rows.failed
    /\ \E t \in Tasks : td[t].returned = MinimalSummary


\* C14: handle_tool_call runs the tool first, then appends one ToolCallLog
\* and makes one log_tool_call request, whether the tool succeeded or failed.
\* The step that takes the tool's result is the only one that touches the
\* log: it appends the entry of that result and makes the request.
C14_OneLogPerToolCall ==
    [][IF hpc = "tool" /\ hpc' # "tool"
       THEN /\ tool_call_logs' =
                 Append(tool_call_logs,
                        [session_id |-> AgentSession,
                         tool_name |-> running[AgentSession],
                         success |-> result.success])
            /\ tool_calls'.writes = tool_calls.writes + 1
       ELSE /\ session_id # None => tool_call_logs' = tool_call_logs
            /\ tool_calls'.writes = tool_calls.writes]_allvars

\* C14, the count: the session's log has one entry, and one log_tool_call
\* request was made, for each invocation made so far whose tool has
\* returned.
C14_LogCountIsInvocations ==
    /\ tool_calls.writes = Len(tool_call_logs)
    /\ Len(tool_call_logs) =
          tool_calls.invocations - (IF hpc = "tool" THEN 1 ELSE 0)

\* C14, both halves.
C14_ToolCallsLogged == []C14_LogCountIsInvocations /\ C14_OneLogPerToolCall

\* Two invocations have returned, a refused one and one that succeeded.
C14_Witness ==
    /\ hpc = "idle"
    /\ tool_calls.invocations = 2
    /\ \E i, j \in DOMAIN tool_call_logs :
          tool_call_logs[i].success /\ ~tool_call_logs[j].success


\* C15: a failure of an audit write (log_tool_call, log_event,
\* save_conversation_summary) or of the display callback does not propagate.
\* From the step execute_tool returns to the step handle_tool_call returns,
\* whatever the writes and the callback do in between, the tool's result
\* and the session state stay as the tool left them, and handle_tool_call
\* returns that result.
C15_AuditFailuresSwallowed ==
    [][(hpc # "idle" /\ pc[AgentSession] = "returned") =>
          /\ state' = state
          /\ IF hpc' = "idle"
             THEN /\ result.kind = "ToolResult"
                  /\ handled'.result = result
             ELSE result' = result]_allvars

\* A call returned the tool's success although its audit write failed, its
\* callback raised, and the event log write of a teardown failed.
C15_Witness ==
    /\ hpc = "idle"
    /\ handled.write = "failed"
    /\ handled.callback = "raised"
    /\ handled.result.kind = "ToolResult"
    /\ handled.result.success
    /\ event_rows.failed


\* ------------------------------------------------------------ the LLM service
\* The calls request r has made of a provider, those still running included.
CallsOf(r, provider) ==
    Cardinality({i \in DOMAIN llm[r].calls :
                    llm[r].calls[i].provider = provider})
    + (IF llm[r].pc = provider THEN 1 ELSE 0)

\* The call of request r that failed, if it is its i-th.
FailedCall(r, i) ==
    i \in DOMAIN llm[r].calls /\ llm[r].calls[i].answer = "fails"

\* C16: generate_response calls the primary provider once and first, and
\* the secondary at most once, if and only if the primary's call failed; it
\* returns the primary's response when the primary answered, the
\* secondary's when only the secondary answered, and it fails if and only if
\* both failed.  No request makes more than two provider calls.
C16_PrimaryThenSecondary ==
    \A r \in Requests :
        /\ CallsOf(r, "gemini") <= 1
        /\ CallsOf(r, "groq") <= 1
        /\ CallsOf(r, "gemini") + CallsOf(r, "groq") <= 2
        /\ llm[r].pc # "idle" => CallsOf(r, "gemini") = 1
        /\ llm[r].calls # <<>> => llm[r].calls[1].provider = "gemini"
        /\ CallsOf(r, "groq") = 1 <=> FailedCall(r, 1)
        /\ llm[r].pc = "done" =>
              /\ llm[r].response.kind = "raised"
                    <=> (FailedCall(r, 1) /\ FailedCall(r, 2))
              /\ ~FailedCall(r, 1) =>
                    /\ llm[r].response.kind = "CompatibleResponse"
                    /\ llm[r].response.response =
                          LLMResponse("gemini", llm[r].calls[1].answer)
              /\ (FailedCall(r, 1) /\ ~FailedCall(r, 2)) =>
                    /\ llm[r].response.kind = "CompatibleResponse"
                    /\ llm[r].response.response =
                          LLMResponse("groq", llm[r].calls[2].answer)

\* One request was answered by the secondary after the primary failed,
\* another has failed on both, a third was answered by the primary.
C16_Witness ==
    \E r1, r2, r3 \in Requests :
        /\ llm[r1].pc = "done" /\ llm[r2].pc = "done" /\ llm[r3].pc = "done"
        /\ llm[r1].response.kind = "CompatibleResponse"
        /\ llm[r1].response.response.provider = "groq"
        /\ llm[r2].response.kind = "raised"
        /\ llm[r3].response.kind = "CompatibleResponse"
        /\ llm[r3].response.response.provider = "gemini"


\* ---------------------------------------------------------------- the avatar
\* No transition_to call is running.
NoTransitionInFlight == \A c \in Callers : transitions[c].pc = "idle"

\* The label is the state the avatar service accepted last.
LabelIsAccepted == avatar_state # None => current_state = avatar_state

\* C17: under any interleaving of transition_to calls, whenever no
\* transition is in flight the current_state label is the state the avatar
\* service accepted last; and a transition never overwrites the label with a
\* state the service accepted earlier than its last one: every change of the
\* label sets it to the state accepted last.
C17_LabelIsLastAccepted ==
    /\ [](NoTransitionInFlight => LabelIsAccepted)
    /\ [][current_state' # current_state =>
             current_state' = avatar_state']_allvars

\* Three calls ran together, two of them waiting for the lock, and the label
\* has changed twice since.
C17_Witness ==
    /\ NoTransitionInFlight
    /\ transition_lock.calls >= 3
    /\ \A c \in Callers : transitions[c].success
    /\ Cardinality({transitions[c].new_state : c \in Callers}) = 3
    /\ current_state # "idle"


\* ----------------------------------------------------------------- the users
\* C18: after any interleaving of bookings by concurrent sessions for one
\* phone, the user's total_appointments is its initial value plus the number
\* of appointments created for the phone.  Each booking adds one to the
\* value it has read, so the counter must not have moved between an
\* increment's read and its write.
C18_IncrementsNotLost ==
    [][\A s \in Sessions :
          (pc[s] = "increment_user_appointments_write" /\ pc'[s] # pc[s])
          => frame[s].total =
                users[frame[s].phone].total_appointments]_vars


\* C19: a User record is created by the first successful identify_user for
\* its phone, and every later successful identify_user and every successful
\* booking for the phone refreshes its last_interaction: when such a call
\* returns success, the record of the caller's phone is there and carries the
\* time of the conversation.
C19_UserRefreshed ==
    [][\A s \in Sessions :
          (/\ Returns(s)
           /\ running'[s] \in {"identify_user", "book_appointment"}
           /\ result'.kind = "ToolResult"
           /\ result'.success)
          => /\ users'[state'[s].user_phone] # NoUser
             /\ users'[state'[s].user_phone].last_interaction = utcnow]_vars


\* 555-987-6543 as a caller without a User record says it, and normalized.
NewCallerSays == <<"5", "5", "5", "9", "8", "7", "6", "5", "4", "3">>
NewCaller == <<"+", "1", "5", "5", "5", "9", "8", "7", "6", "5", "4", "3">>

\* The User row of a phone just created.
NewUser(phone) ==
    [phone_number |-> phone, name |-> None, last_interaction |-> utcnow,
     total_appointments |-> 0]

\* C20: identify_user, in an initialized session and for a phone without a
\* User record, creates one User keyed by the normalized phone (ten digits
\* get the +1 prefix: 555-123-4567 becomes +15551234567), sets is_identified
\* and user_phone to the normalized phone, and returns success with the
\* new-user greeting.  The call looks the normalized phone up; the step
\* that inserts the row changes the users table at that key only, and is the
\* step that returns the success.
C20_NewUserIdentified ==
    [][\A s \in Sessions :
          /\ normalize_phone(<<"5", "5", "5", "-", "1", "2", "3", "-",
                               "4", "5", "6", "7">>)
                = <<"+", "1", "5", "5", "5", "1", "2", "3", "4", "5", "6", "7">>
          /\ (/\ pc[s] = "idle"
              /\ running'[s] = "identify_user"
              /\ state[s] # NoState
              /\ users[NewCaller] = NoUser
              /\ execute_tool(s, "identify_user",
                              [phone_number |-> NewCallerSays]))
             => /\ pc'[s] = "create_or_update_user_get"
                /\ frame'[s].phone = NewCaller
                /\ users' = users
          /\ (/\ running[s] = "identify_user"
              /\ pc[s] = "create_or_update_user_write"
              /\ pc'[s] # pc[s]
              /\ frame[s].existing = NoUser)
             => \A phone \in {frame[s].phone} :
                   IF users' # users
                   THEN /\ users' = [users EXCEPT ![phone] = NewUser(phone)]
                        /\ users[phone] = NoUser
                        /\ state'[s].is_identified
                        /\ state'[s].user_phone = phone
                        /\ result'.success
                        /\ ~result'.data.is_returning
                        /\ result'.data.user = NewUser(phone)
                        /\ result'.verbal_response =
                              Text("Great, I've got your number.")
                   ELSE /\ ~result'.success
                        /\ state' = state]_vars

\* The new caller has been identified and has a record.
C20_Witness ==
    \E s \in Sessions :
        /\ pc[s] = "returned"
        /\ running[s] = "identify_user"
        /\ result.success
        /\ ~result.data.is_returning
        /\ IsIdentified(s)
        /\ state[s].user_phone = NewCaller
        /\ users[NewCaller] = NewUser(NewCaller)

\* ================================================= calls of the slot generator
\* The generator keeps nothing between calls: a call is its arguments, the
\* clock it reads, and what it returns; each call is made on its own.
\* Clocks: Monday 15:00, Monday 07:10 (before opening), Monday 23:30 (the
\* one-hour buffer ends tomorrow), Saturday 18:45, Sunday 10:00.
SlotClocks ==
    { [day |-> 0, hour |-> 15, minute |-> 0],
      [day |-> 0, hour |-> 7, minute |-> 10],
      [day |-> 0, hour |-> 23, minute |-> 30],
      [day |-> 5, hour |-> 18, minute |-> 45],
      [day |-> 6, hour |-> 10, minute |-> 0] }

\* duration_minutes: not given, 45, 60, the whole business day, negative.
DurationInputs == {0, 45, 60, 720, -30}

\* booked_slots: nothing; Tuesday 09:00; several, one of them written as
\* "9:00", one on a Sunday.
BookedInputs ==
    { {},
      {<<DateText(1), TimeText(9, 0)>>},
      {<<DateText(0), TimeText(16, 30)>>, <<DateText(1), Unpadded(9, 0)>>,
       <<DateText(6), TimeText(9, 0)>>, <<DateText(7), TimeText(8, 0)>>} }

\* limit: not given, or 3.
LimitInputs == {0, 3}

\* The date and time validate_slot is asked about.
SlotTextInputs ==
    {<<d, t>> : d \in {DateText(0), DateText(1), DateText(30)},
                t \in {TimeText(9, 0), TimeText(9, 15), TimeText(16, 0),
                       TimeText(19, 45)}}
    \cup {<<d, TimeText(9, 0)>> :
            d \in {BadDate, DateText(-2), DateText(6), DateText(31),
                   DateText(36), DateText(37)}}
    \cup {<<DateText(1), t>> :
            t \in {BadTime, TimeText(7, 30), TimeText(20, 0), Unpadded(9, 0)}}
    \cup {<<BadDate, BadTime>>}

SlotCalls ==
    {[called |-> None, returned |-> <<>>, duration_minutes |-> d,
      booked_slots |-> b, limit |-> l, date |-> x[1], time |-> x[2]] :
        d \in DurationInputs, b \in BookedInputs, l \in LimitInputs,
        x \in SlotTextInputs}

SlotsInit ==
    /\ StoreInit
    /\ now \in SlotClocks
    /\ VoiceAgentInit
    /\ LLMServiceInit
    /\ AvatarStateManagerInit
    /\ generator \in SlotCalls
    /\ ApiInit
    /\ normalized = NoPhoneCall

\* SlotGenerator.generate_slots(tz, duration_minutes, booked_slots).
GenerateSlots ==
    /\ generator.called = None
    /\ generator' =
          [generator EXCEPT
              !.called = "generate_slots",
              !.returned = generate_slots(now, generator.duration_minutes,
                                          generator.booked_slots)]
    /\ UNCHANGED <<vars, agent, services, http, normalized>>

\* SlotGenerator.get_available_slots(tz, duration_minutes, booked_slots,
\* limit).
GetAvailableSlots ==
    /\ generator.called = None
    /\ generator' =
          [generator EXCEPT
              !.called = "get_available_slots",
              !.returned = get_available_slots(now, generator.duration_minutes,
                                               generator.booked_slots,
                                               generator.limit)]
    /\ UNCHANGED <<vars, agent, services, http, normalized>>

\* SlotGenerator.validate_slot(date, time, tz).
ValidateSlot ==
    /\ generator.called = None
    /\ generator' =
          [generator EXCEPT
              !.called = "validate_slot",
              !.returned = validate_slot(generator.date, generator.time, now)]
    /\ UNCHANGED <<vars, agent, services, http, normalized>>

SlotsNext ==
    \/ GenerateSlots
    \/ GetAvailableSlots
    \/ ValidateSlot

SpecSlots == SlotsInit /\ [][SlotsNext]_allvars

\* ------------------------------------------------------------------ C21
\* Minutes since midnight of a slot's start.
StartOf(slot) == slot.time.hour * 60 + slot.time.minute

\* C21: every slot generate_slots returns, for every clock, duration and
\* booked set, is on a business day, starts at or after the opening hour,
\* ends (start plus duration) at or before the closing hour and, when it is
\* on the current day, starts strictly later than now plus one hour.
C21_SlotsWithinBusinessHours ==
    generator.called = "generate_slots" =>
        \A i \in DOMAIN generator.returned :
            LET slot == generator.returned[i]
            IN  /\ weekday(slot.date.day) \in business_days
                /\ StartOf(slot) >= business_hours_start * 60
                /\ StartOf(slot) + slot.duration_minutes
                      <= business_hours_end * 60
                /\ slot.date.day = now.day
                      => StartOf(slot) > now.hour * 60 + now.minute + 60

\* generate_slots has returned slots of the current day and of later days,
\* for a duration the caller gave.
C21_Witness ==
    /\ generator.called = "generate_slots"
    /\ generator.duration_minutes = 45
    /\ \E i \in DOMAIN generator.returned :
            generator.returned[i].date.day = now.day
    /\ \E i \in DOMAIN generator.returned :
            generator.returned[i].date.day > now.day

\* ------------------------------------------------------------------ C22
\* The generated slots for the arguments of the call.
Generated ==
    generate_slots(now, generator.duration_minutes, generator.booked_slots)

NotBooked(slot) == <<slot.date, slot.time>> \notin generator.booked_slots

\* C22: get_available_slots without a limit returns the generated slots for
\* the same inputs, in their order, without exactly those whose (date, time)
\* is in the supplied booked set; and every generated slot is marked
\* unavailable if and only if its (date, time) is in the booked set.
C22_AvailableIsGeneratedMinusBooked ==
    /\ (generator.called = "get_available_slots" /\ generator.limit = 0)
          => generator.returned = SelectSeq(Generated, NotBooked)
    /\ generator.called = "generate_slots"
          => \A i \in DOMAIN generator.returned :
                ~generator.returned[i].is_available
                    <=> ~NotBooked(generator.returned[i])

\* get_available_slots, called without a limit, has left generated slots out.
C22_Witness ==
    /\ generator.called = "get_available_slots"
    /\ generator.limit = 0
    /\ generator.returned # <<>>
    /\ Len(generator.returned) < Len(Generated)

\* ------------------------------------------------------------------ C23
\* Slot a comes before slot b: by date, then hour, then minute.
Before(a, b) ==
    \/ a.date.day < b.date.day
    \/ /\ a.date.day = b.date.day
       /\ \/ a.time.hour < b.time.hour
          \/ a.time.hour = b.time.hour /\ a.time.minute < b.time.minute

Malformed(text) == text.kind = "malformed"
OutsideBusinessHours(time) ==
    time.hour < business_hours_start \/ time.hour >= business_hours_end
NotInFuture(date, time) ==
    \/ date.day < now.day
    \/ date.day = now.day /\ StartOf([time |-> time]) <= now.hour * 60 + now.minute
BeyondHorizon(date) == date.day > now.day + booking_advance_days
NoSlot(date, time) ==
    \/ Malformed(date)
    \/ Malformed(time)
    \/ /\ ~Malformed(date)
       /\ ~Malformed(time)
       /\ \/ OutsideBusinessHours(time)
          \/ weekday(date.day) \notin business_days
          \/ NotInFuture(date, time)
          \/ BeyondHorizon(date)

\* C24: validate_slot returns a pair and raises nothing; the pair is
\* (false, a non-empty message) for a malformed date, a malformed time, a
\* time outside business hours, a date that is no business day, a date and
\* time not in the future, a date beyond today plus the horizon, and
\* (true, "") for every other input: the message is empty if and only if
\* the slot is valid.
C24_ValidateSlotTotal ==
    generator.called = "validate_slot" =>
        /\ generator.returned \in BOOLEAN \X STRING
        /\ generator.returned[1] = ~NoSlot(generator.date, generator.time)
        /\ generator.returned[2] = "" <=> generator.returned[1]

\* validate_slot has refused a well-formed time of a business day that is
\* not in the future.
C24_Witness ==
    /\ generator.called = "validate_slot"
    /\ ~generator.returned[1]
    /\ ~Malformed(generator.date) /\ ~Malformed(generator.time)
    /\ ~OutsideBusinessHours(generator.time)
    /\ weekday(generator.date.day) \in business_days
    /\ NotInFuture(generator.date, generator.time)

\* ========================================================= the admin routes
\* Settings.admin_password.
admin_password == "admin123"

\* GET /api/admin/appointments and GET /api/admin/stats.
AdminRoutes == {"/api/admin/appointments", "/api/admin/stats"}
\* request.headers.get("X-Admin-Password"): absent, the password, another
\* text, the empty text.
HeaderInputs == {None, admin_password, "guess", ""}
\* The query string: int() reads its limit and offset, or raises ValueError.
QueryInputs == {"numbers", "not numbers"}

\* A request that is answered: its status, and the store reads made for it.
Answered_request(request, status) == [request EXCEPT !.pc = "done", !.status = status]

\* A check that only asks for the header to be there.
check_admin_auth_any_password(header) == header # None

\* _check_admin_auth.
check_admin_auth(header) == header = admin_password

\* The store reads of a handler, in its order.
ReadsOf(route) ==
    IF route = "/api/admin/appointments"
    THEN <<"get_all_appointments", "get_appointments_count">>
    ELSE <<"get_appointments_count", "get_all_appointments">>

\* get_all_appointments and get_admin_stats up to their first store read.
AdminRequest(q) ==
    /\ http[q].pc = "idle"
    /\ \E route \in AdminRoutes, header \in HeaderInputs, query \in QueryInputs :
         LET request == [pc |-> "idle", route |-> route, header |-> header,
                         status |-> 0, reads |-> <<>>]
         IN  IF ~check_admin_auth(header)
             THEN http' = [http EXCEPT ![q] = Answered_request(request, 401)]
             ELSE IF route = "/api/admin/appointments" /\ query = "not numbers"
             THEN http' = [http EXCEPT ![q] = Answered_request(request, 500)]
             ELSE http' = [http EXCEPT ![q] = [request EXCEPT !.pc = "read"]]
    /\ UNCHANGED <<vars, agent, services, generator, normalized>>

\* The store answers a read of the handler; after the last one the handler
\* responds: 200, or 500 when building the response raises.
AdminRead(q) ==
    /\ http[q].pc = "read"
    /\ LET request == http[q]
           reads == Append(request.reads,
                           ReadsOf(request.route)[Len(request.reads) + 1])
       IN  IF Len(reads) < Len(ReadsOf(request.route))
           THEN http' = [http EXCEPT ![q].reads = reads]
           ELSE \E status \in {200, 500} :
                   http' = [http EXCEPT ![q] =
                       Answered_request([request EXCEPT !.reads = reads], status)]
    /\ UNCHANGED <<vars, agent, services, generator, normalized>>

AdminNext ==
    \E q \in HttpRequests :
        \/ AdminRequest(q)
        \/ AdminRead(q)

SpecAdmin == Init /\ [][AdminNext]_allvars

\* ------------------------------------------------------------------ C25
\* C25: a request to GET /api/admin/appointments or GET /api/admin/stats
\* whose X-Admin-Password header is not the configured admin password, an
\* absent header included, is answered 401 and no store read is made for it.
C25_AdminRoutesNeedPassword ==
    \A q \in HttpRequests :
        (http[q].pc # "idle" /\ http[q].header # admin_password)
        => /\ http[q].pc = "done"
           /\ http[q].status = 401
           /\ http[q].reads = <<>>

\* A request without the header has been answered while a request with the
\* password has read the store.
C25_Witness ==
    \E q, other \in HttpRequests :
        /\ http[q].pc = "done"
        /\ http[q].header = None
        /\ http[q].status = 401
        /\ http[other].pc # "idle"
        /\ http[other].reads # <<>>

\* ======================================== tool calls executed one at a time
\* No other session is inside a tool call.
Alone(s) == \A other \in Sessions \ {s} : pc[other] = "idle"

\* A tool call arrives while no other call is running.
ToolCallAlone(s) == Alone(s) /\ ToolCall(s)

SerialNext ==
    \E s \in Sessions :
        \/ InitConversation(s)
        \/ ToolCallAlone(s)
        \/ TakeResult(s)
        \/ CreateOrUpdateUserGet(s)
        \/ CreateOrUpdateUserWrite(s)
        \/ CreateAppointmentCheck(s)
        \/ CreateAppointmentInsert(s)
        \/ IncrementUserAppointmentsGet(s)
        \/ IncrementUserAppointmentsWrite(s)
        \/ CancelUpdate(s)
        \/ ModifyGet(s)
        \/ ModifyCheck(s)
        \/ ModifyUpdate(s)

SpecSerial == Init /\ [][SerialNext]_vars

\* ------------------------------------------------------------------ C26
\* A scheduled appointment other than id holds the date and time.
HeldByOther(id, date, time) == ScheduledAt(date, time) \ {id} # {}

\* This step of a modify_appointment call of session s returns success,
\* changes the table or tracks a modification.
ModifyTakesEffect(s) ==
    /\ running'[s] = "modify_appointment"
    /\ \/ Returns(s) /\ result'.kind = "ToolResult" /\ result'.success
       \/ appointments' # appointments
       \/ /\ state[s] # NoState
          /\ state'[s].appointments_modified # state[s].appointments_modified

\* C26: with tool calls executed one at a time, a modify_appointment whose
\* resulting date and time are held by a different scheduled appointment
\* returns success=false at the store's check, changes no appointment and
\* tracks nothing, no step of such a call takes effect, and no date and time
\* ever has two scheduled appointments.
C26_ModifyKeepsSlotsSingle ==
    /\ [](\A i, j \in DOMAIN appointments :
            (i # j /\ appointments[i].status = "scheduled"
                   /\ appointments[j].status = "scheduled")
            => <<appointments[i].date, appointments[i].time>>
                  # <<appointments[j].date, appointments[j].time>>)
    /\ [][\A s \in Sessions :
            /\ ( /\ pc[s] = "modify_check"
                 /\ pc'[s] # pc[s]
                 /\ HeldByOther(frame[s].apt.id, frame[s].target_date,
                                frame[s].target_time) )
               => /\ Returns(s)
                  /\ result'.success = FALSE
                  /\ appointments' = appointments
                  /\ state' = state
            /\ ModifyTakesEffect(s)
               => /\ pc[s] = "modify_update"
                  /\ ~HeldByOther(frame[s].apt.id, frame[s].target_date,
                                  frame[s].target_time)
      ]_vars

\* A modify_appointment call has been refused at the store's check: the slot
\* it asked for is held by a scheduled appointment, and the caller has
\* another scheduled appointment.
C26_Witness ==
    \E s \in Sessions :
        /\ pc[s] = "returned"
        /\ running[s] = "modify_appointment"
        /\ result.success = FALSE
        /\ result.error.text = "Slot is not available"
        /\ \E i \in ScheduledAt(result.error.date, result.error.time) :
             \E j \in DOMAIN appointments \ {i} :
                /\ appointments[j].status = "scheduled"
                /\ appointments[j].user_phone = state[s].user_phone
        /\ state[s].appointments_modified = <<>>

\* ------------------------------------------------------------------ C27
\* C27: cancel_appointment and modify_appointment change only appointments
\* whose status is scheduled when the call is made, by id or by date and
\* time: a row that changes was scheduled and stays scheduled or becomes
\* cancelled, and a call returns success only for an appointment it has
\* found scheduled.
C27_OnlyScheduledAltered ==
    [][/\ \A i \in DOMAIN appointments :
            appointments'[i] # appointments[i]
            => /\ appointments[i].status = "scheduled"
               /\ appointments'[i].status \in {"scheduled", "cancelled"}
       /\ \A s \in Sessions :
            ( /\ running'[s] \in {"cancel_appointment", "modify_appointment"}
              /\ Returns(s)
              /\ result'.kind = "ToolResult"
              /\ result'.success )
            => frame[s].apt.status = "scheduled"
      ]_vars

\* ------------------------------------------------------------------ C28
\* C28: a date and time that book_appointment's validation (validate_slot,
\* at the same clock) accepts are those of a slot generate_slots returns for
\* the booking's duration: on the 30-minute cadence, ending within business
\* hours, with an hour of lead time today, inside the generator's day range.
C28_AcceptedIsGenerated ==
    (generator.called = "validate_slot" /\ generator.returned[1])
    => \E i \in DOMAIN Generated :
            /\ Generated[i].date = generator.date
            /\ Generated[i].time = generator.time

\* ------------------------------------------------------------------ C29
\* C29: every slot generate_slots returns passes validate_slot at the same
\* clock, so book_appointment's validation refuses no slot fetch_slots has
\* offered.
C29_GeneratedIsAccepted ==
    generator.called = "generate_slots" =>
        \A i \in DOMAIN generator.returned :
            validate_slot(generator.returned[i].date,
                          generator.returned[i].time, now) = <<TRUE, "">>

\* generate_slots has returned a slot of today, and one of the last day of
\* its range.
C29_Witness ==
    /\ generator.called = "generate_slots"
    /\ generator.returned # <<>>
    /\ generator.returned[1].date.day = now.day
    /\ generator.returned[Len(generator.returned)].date.day
          = now.day + booking_advance_days - 1

\* ------------------------------------------------------------------ C30
\* C30: every slot fetch_slots returns has no scheduled appointment in the
\* store when the occupancy is read, whether the read is answered or fails.
C30_OfferedSlotsAreFree ==
    [][\A s \in Sessions :
        ( /\ pc[s] = "idle"
          /\ running'[s] = "fetch_slots"
          /\ Returns(s)
          /\ result'.success )
        => LET offered == OfferedSlots(result'.data.date,
                                       result'.data.booked_slots)
           IN  \A i \in DOMAIN offered :
                    ~Occupied(offered[i].date, offered[i].time)
      ]_vars


\* ---------------------------------------------------------------- C31
\* The slot modify_appointment of session s is asking the store for.
ModifyTarget(s) ==
    [date |-> OrElse(frame[s].tool_input, "new_date", frame[s].current.date),
     time |-> OrElse(frame[s].tool_input, "new_time", frame[s].current.time)]

\* The slot a check of session s is about.
CheckedSlot(s) ==
    IF pc[s] = "modify_check" THEN ModifyTarget(s)
    ELSE [date |-> frame[s].date, time |-> frame[s].time]

\* C31: a failed read behind check_slot_available reports the slot as not
\* available, whatever the table holds; a book_appointment or a
\* modify_appointment gets past a check only when the read was answered and
\* found no scheduled row at the slot, and a check that ends the call ends it
\* with success = false, no row created or changed and the session state
\* as it was.
C31_FailedReadMeansUnavailable ==
    /\ [](\A slot \in SlotInputs :
            ~check_slot_available(slot[1], slot[2], TRUE))
    /\ [][\A s \in Sessions :
            /\ ( /\ pc[s] = "idle"
                 /\ running'[s] = "book_appointment"
                 /\ pc'[s] \in {"create_or_update_user_get",
                                "create_appointment_check"} )
               => ~Occupied(frame'[s].date, frame'[s].time)
            /\ ( /\ pc[s] \in {"create_appointment_check", "modify_check"}
                 /\ pc'[s] # pc[s] )
               => IF Returns(s)
                  THEN /\ result'.kind = "ToolResult"
                       /\ result'.success = FALSE
                       /\ appointments' = appointments
                       /\ users' = users
                       /\ state' = state
                  ELSE /\ ~Occupied(CheckedSlot(s).date, CheckedSlot(s).time)
                       /\ appointments' = appointments
         ]_vars

\* A book_appointment has been refused by create_appointment's check of a
\* slot that no scheduled appointment holds: the read behind the check failed.
C31_Witness ==
    \E s \in Sessions :
        /\ pc[s] = "returned"
        /\ running[s] = "book_appointment"
        /\ result.kind = "ToolResult"
        /\ result.success = FALSE
        /\ "date" \in DOMAIN result.error
        /\ result.error.text = "Slot is already booked"
        /\ ~Occupied(result.error.date, result.error.time)


\* ---------------------------------------------------------------- C32
\* The step is the successful return of an identify_user call of session s.
IdentifySucceeds(s) ==
    /\ Returns(s)
    /\ running'[s] = "identify_user"
    /\ result'.kind = "ToolResult"
    /\ result'.success

\* C32: in a session, is_identified never goes from true back to false and
\* the session state is never dropped; is_identified, user_phone and user
\* change only in the step in which an identify_user call returns success,
\* and that step sets is_identified and leaves in user_phone the normalized
\* phone of that call and in user the User it returns; an identify_user that
\* returns a failure leaves the whole session state as it was.  Hence, in
\* every state, an identified session holds the normalized phone of its most
\* recent successful identify_user.
C32_IdentificationSticks ==
    /\ [](\A s \in Sessions :
            (state[s] # NoState /\ state[s].is_identified)
            => /\ state[s].user_phone \in PhoneKeys
               /\ state[s].user.phone_number = state[s].user_phone)
    /\ [][\A s \in Sessions :
            /\ state[s] # NoState
               => /\ state'[s] # NoState
                  /\ state[s].is_identified => state'[s].is_identified
                  /\ IF IdentifySucceeds(s)
                     THEN /\ state'[s].is_identified
                          /\ state'[s].user = result'.data.user
                          /\ state'[s].user_phone =
                                result'.data.user.phone_number
                          /\ pc[s] = "create_or_update_user_write"
                             => state'[s].user_phone = frame[s].phone
                     ELSE /\ state'[s].is_identified = state[s].is_identified
                          /\ state'[s].user_phone = state[s].user_phone
                          /\ state'[s].user = state[s].user
                  /\ ( /\ Returns(s)
                       /\ running'[s] = "identify_user"
                       /\ ~result'.success )
                     => state'[s] = state[s]
            /\ (pc[s] = "idle" /\ running'[s] = "identify_user"
                  /\ state[s] # NoState)
               => \A ti \in BoundInputs["identify_user"] :
                     execute_tool(s, "identify_user", ti)
                     => IF Returns(s)
                        THEN state'[s].user_phone =
                                normalize_phone(ti.phone_number)
                        ELSE frame'[s].phone =
                                normalize_phone(ti.phone_number)
         ]_vars

\* An identified session has called identify_user again and the call has
\* failed: the session is still identified, by the phone it had.
C32_Witness ==
    \E s \in Sessions :
        /\ pc[s] = "returned"
        /\ running[s] = "identify_user"
        /\ result.kind = "ToolResult"
        /\ ~result.success
        /\ IsIdentified(s)
        /\ state[s].user_phone = FirstCaller
        /\ state[s].user.phone_number = FirstCaller


\* ---------------------------------------------------------------- C33
\* C33: once identify_user has returned success, also when it is called
\* again with another phone, the session's user_name is unset or is the name
\* of the user just identified by user_phone.
C33_NameBelongsToPhone ==
    [][\A s \in Sessions :
          IdentifySucceeds(s)
          => /\ state'[s].user_phone = result'.data.user.phone_number
             /\ state'[s].user_name \in {None, result'.data.user.name}
      ]_vars


\* ---------------------------------------------------------------- C34
\* The transition_to call that started last.
LastTransition == transitions[transition_lock.last]

\* C34: when the transition_to call that started last has returned true and
\* no transition is in flight any more, current_state is the state that
\* call asked for.
C34_LastRequestInForce ==
    ( /\ NoTransitionInFlight
      /\ transition_lock.last # None
      /\ LastTransition.success )
    => current_state = LastTransition.new_state


\* ===================================================== calls of _normalize_phone
\* _normalize_phone keeps nothing between calls: a call is the phone as the
\* caller wrote it and the key it returns.  A phone is a number (its digits)
\* written in some format.
\* Ten-digit numbers: the two callers, one that begins with 1, one more.
TenDigitNumbers ==
    { <<"5", "5", "5", "1", "2", "3", "4", "5", "6", "7">>,
      <<"5", "5", "5", "9", "8", "7", "6", "5", "4", "3">>,
      <<"1", "5", "5", "5", "1", "2", "3", "4", "5", "6">>,
      <<"2", "0", "2", "5", "5", "5", "0", "1", "4", "3">> }

\* Numbers of other lengths: seven digits, eleven with the US country code,
\* eleven without it, twelve.
OtherNumbers ==
    { <<"5", "5", "5", "1", "2", "3", "4">>,
      <<"1", "5", "5", "5", "1", "2", "3", "4", "5", "6", "7">>,
      <<"2", "5", "5", "5", "1", "2", "3", "4", "5", "6", "7">>,
      <<"4", "4", "5", "5", "5", "1", "2", "3", "4", "5", "6", "7">> }

\* Ways to write the digits d with punctuation only.
PunctuationFormats == {"plain", "dashes", "dots", "spaces", "parens"}

\* Ways to write a ten-digit number with the leading 1 of the US code.
LeadingOneFormats == {"one", "one_dashes", "plus_one", "plus_one_parens"}

\* d in groups of three, three and the rest, sep between the groups.
Grouped(d, sep) ==
    SubSeq(d, 1, 3) \o sep \o SubSeq(d, 4, 6) \o sep \o SubSeq(d, 7, Len(d))

\* (555) 123-4567
Parens(d) ==
    <<"(">> \o SubSeq(d, 1, 3) \o <<")", " ">> \o SubSeq(d, 4, 6)
        \o <<"-">> \o SubSeq(d, 7, Len(d))

\* The number d as a caller writes it in a format.
Written(format, d) ==
    CASE format = "plain" -> d
      [] format = "dashes" -> Grouped(d, <<"-">>)
      [] format = "dots" -> Grouped(d, <<".">>)
      [] format = "spaces" -> Grouped(d, <<" ">>)
      [] format = "parens" -> Parens(d)
      [] format = "one" -> <<"1">> \o d
      [] format = "one_dashes" -> <<"1", "-">> \o Grouped(d, <<"-">>)
      [] format = "plus_one" -> <<"+", "1">> \o d
      [] format = "plus_one_parens" -> <<"+", "1", " ">> \o Parens(d)

\* The calls followed: every number in every format that writes it.
PhoneCalls ==
    { [pc |-> "written", number |-> d, format |-> f,
       phone |-> Written(f, d), returned |-> NoPhone, again |-> NoPhone] :
         d \in TenDigitNumbers, f \in PunctuationFormats \cup LeadingOneFormats }
    \cup
    { [pc |-> "written", number |-> d, format |-> f,
       phone |-> Written(f, d), returned |-> NoPhone, again |-> NoPhone] :
         d \in OtherNumbers, f \in PunctuationFormats }

PhoneInit ==
    /\ StoreInit
    /\ now \in ClockValues
    /\ VoiceAgentInit
    /\ LLMServiceInit
    /\ AvatarStateManagerInit
    /\ generator = NoSlotCall
    /\ ApiInit
    /\ normalized \in PhoneCalls

\* self._normalize_phone(phone_number), as identify_user calls it.
NormalizePhone ==
    /\ normalized.pc = "written"
    /\ normalized' = [normalized EXCEPT
                         !.pc = "returned",
                         !.returned = normalize_phone(normalized.phone)]
    /\ UNCHANGED <<vars, agent, services, generator, http>>

\* _normalize_phone called on a key it has returned (a caller identified by
\* the phone a record holds).
NormalizeAgain ==
    /\ normalized.pc = "returned"
    /\ normalized' = [normalized EXCEPT
                         !.pc = "again",
                         !.again = normalize_phone(normalized.returned)]
    /\ UNCHANGED <<vars, agent, services, generator, http>>

PhoneNext ==
    \/ NormalizePhone
    \/ NormalizeAgain

SpecPhone == PhoneInit /\ [][PhoneNext]_allvars

\* ---------------------------------------------------------------- C35
\* The key of a number: +1 and the digits for ten digits; + and the digits
\* for more than ten; the digits alone for fewer.
KeyOf(d) ==
    IF Len(d) = 10 THEN <<"+", "1">> \o d
    ELSE IF Len(d) > 10 THEN <<"+">> \o d
    ELSE d

\* C35: _normalize_phone is canonical and idempotent: a number written with
\* any punctuation, and a ten-digit number written with a leading 1 or +1,
\* normalize to the one key of the number (+1 and its ten digits);
\* normalizing a key returns the key; so the lookup identify_user makes
\* finds the same User for every way of writing one number.
C35_NormalizePhoneCanonical ==
    /\ normalized.pc \in {"returned", "again"}
       => /\ normalized.returned = KeyOf(normalized.number)
          /\ normalized.returned = normalize_phone(normalized.number)
          /\ get_user_by_phone(normalized.returned, FALSE)
                = get_user_by_phone(KeyOf(normalized.number), FALSE)
          /\ normalized.number = SelectSeq(FirstCaller, IsDigit)
                                    \/ normalized.number
                                         = Tail(SelectSeq(FirstCaller, IsDigit))
             => get_user_by_phone(normalized.returned, FALSE).name = "Ann"
    /\ normalized.pc = "again" => normalized.again = normalized.returned

\* +1 (555) 123-4567 has been normalized to the first caller's key, and the
\* key normalized again.
C35_Witness ==
    /\ normalized.pc = "again"
    /\ normalized.format = "plus_one_parens"
    /\ normalized.phone =
          <<"+", "1", " ", "(", "5", "5", "5", ")", " ", "1", "2", "3", "-",
            "4", "5", "6", "7">>
    /\ normalized.returned = FirstCaller
    /\ normalized.again = FirstCaller
====
